---- MODULE Spec2Model ----
(***************************************************************************)
(* A model of the Telegram <-> Linear bot: the command interpreter         *)
(* (AIService), the action dispatcher and issue store (LinearTrackerBot)   *)
(* and the webhook reconciler (LinearWebhookController).                   *)
(*                                                                         *)
(* Text is modelled by TLA+ strings; a character is a string of length 1.  *)
(***************************************************************************)
EXTENDS Integers, Sequences, FiniteSets, TLC

VARIABLES
    probe,              \* the input and the result of the pure function under study
    isLaunched,         \* LinearTrackerBot.isLaunched
    bot,                \* LinearTrackerBot.bot: BotSet once the Telegraf instance exists
    botUsername,        \* LinearTrackerBot.botUsername
    launch,             \* where launchBot stands: [pc, attempt, logged]
    now,                \* Date.now()
    linearUsers,        \* AIService.linearUsers
    usersLastFetched,   \* AIService.usersLastFetched
    store,              \* the hashes issue:<id> of the store, by issue id
    chatIssues,         \* the sets chat:<id>:issues of the store, by chat id
    tracker,            \* the issues of the tracker, by issue number
    lastProcessedState, \* LinearWebhookController.lastProcessedState
    deliveries,         \* the webhook deliveries received, with their deferred processing
    sent,               \* the notifications sent to chats, in order
    history,            \* the lists chat:<id>:history of the store, by chat id
    last                \* the last update of the chat transport handled, with what it did

vars == <<probe, isLaunched, bot, botUsername, launch, now, linearUsers, usersLastFetched,
          store, chatIssues, tracker, lastProcessedState, deliveries, sent, history, last>>

(***************************************************************************)
(* Strings                                                                 *)
(***************************************************************************)
Null == "<null>"                \* JavaScript null

Undefined == "<undefined>"      \* JavaScript undefined

\* !v for a value that is a string, null or undefined
\* a value computed once and then used: const x = ...
With(x, F(_)) == CHOOSE r \in {F(v) : v \in {x}} : TRUE

Falsy(v) == v \in {Null, Undefined, ""}

Invalid == "<invalid>"          \* a text that cannot be decoded

\* s.substring(i - 1, j), positions counted from 1: the characters i..j that s has
Slice(s, i, j) ==
    LET upto == IF j < Len(s) THEN j ELSE Len(s)
    IN  IF i < 1 \/ upto < i THEN "" ELSE SubSeq(s, i, upto)

Ch(s, i) == Slice(s, i, i)

From(s, i) == Slice(s, i, Len(s))

RECURSIVE StringsOfLen(_, _)
StringsOfLen(alphabet, n) ==
    IF n = 0 THEN {""}
    ELSE {c \o t : c \in alphabet, t \in StringsOfLen(alphabet, n - 1)}

StringsUpTo(alphabet, n) == UNION {StringsOfLen(alphabet, k) : k \in 0..n}

\* the pieces f[lo], ..., f[hi] one after another
RECURSIVE Join(_, _, _)
Join(f, lo, hi) ==
    IF lo > hi THEN ""
    ELSE IF lo = hi THEN f[lo]
    ELSE LET mid == (lo + hi) \div 2
         IN  Join(f, lo, mid) \o Join(f, mid + 1, hi)

\* String.prototype.replace(/c/g, to) for a one-character pattern
ReplaceAll(str, c, to) ==
    With(str, LAMBDA s :
        Join([i \in 1..Len(s) |-> IF Ch(s, i) = c THEN to ELSE Ch(s, i)], 1, Len(s)))

\* String.prototype.toLowerCase on the letters the model uses
LowerOf(c) ==
    CASE c = "A" -> "a" [] c = "B" -> "b" [] c = "C" -> "c" [] c = "D" -> "d"
      [] c = "E" -> "e" [] c = "F" -> "f" [] c = "G" -> "g" [] c = "H" -> "h"
      [] c = "I" -> "i" [] c = "J" -> "j" [] c = "K" -> "k" [] c = "L" -> "l"
      [] c = "M" -> "m" [] c = "N" -> "n" [] c = "O" -> "o" [] c = "P" -> "p"
      [] c = "Q" -> "q" [] c = "R" -> "r" [] c = "S" -> "s" [] c = "T" -> "t"
      [] c = "U" -> "u" [] c = "V" -> "v" [] c = "W" -> "w" [] c = "X" -> "x"
      [] c = "Y" -> "y" [] c = "Z" -> "z" [] OTHER -> c

toLowerCase(str) ==
    With(str, LAMBDA s : Join([i \in 1..Len(s) |-> LowerOf(Ch(s, i))], 1, Len(s)))

\* the characters the regular expression class \s and String.prototype.trim take as blank
WhiteSpace == {" ", "\n", "\r", "\t", "\f"}

trimStart(str) ==
    With(str, LAMBDA s :
        LET blank == {i \in 1..Len(s) : Ch(s, i) \in WhiteSpace}
            text == (1..Len(s)) \ blank
        IN  IF text = {} THEN "" ELSE From(s, CHOOSE i \in text : \A j \in text : i <= j))

trimEnd(str) ==
    With(str, LAMBDA s :
        LET blank == {i \in 1..Len(s) : Ch(s, i) \in WhiteSpace}
            text == (1..Len(s)) \ blank
        IN  IF text = {} THEN ""
            ELSE Slice(s, 1, CHOOSE i \in text : \A j \in text : i >= j))

trim(s) == trimEnd(trimStart(s))

\* String.prototype.indexOf, 1-based; 0 when sub does not occur in s
indexOf(str, sub) ==
    With(<<str, sub>>, LAMBDA a :
        LET s == a[1]
            n == Len(a[2])
            at == {i \in 1..(Len(s) - n + 1) : Slice(s, i, i + n - 1) = a[2]}
        IN  IF at = {} THEN 0 ELSE CHOOSE i \in at : \A j \in at : i <= j)

includes(s, sub) == indexOf(s, sub) # 0

\* String.prototype.replace(sub, to) with a string pattern: the first occurrence only
replaceFirst(str, sub, to) ==
    With(str, LAMBDA s :
        With(indexOf(s, sub), LAMBDA i :
            IF i = 0 THEN s ELSE Slice(s, 1, i - 1) \o to \o From(s, i + Len(sub))))

\* s.split(sep)[0]
splitFirst(s, sep) ==
    LET i == indexOf(s, sep)
    IN  IF i = 0 THEN s ELSE Slice(s, 1, i - 1)

\* Array.prototype.find as an index: the first i with P(seq[i]), 0 when there is none
FindIndex(seq, P(_)) ==
    LET at == {i \in 1..Len(seq) : P(seq[i])}
    IN  IF at = {} THEN 0 ELSE CHOOSE i \in at : \A j \in at : i <= j

(***************************************************************************)
(* The identity directory (config/userMappings)                            *)
(***************************************************************************)
Mapping(tg, name, email, aliases) ==
    [telegramUsername |-> tg, linearName |-> name, linearEmail |-> email, aliases |-> aliases]

\* The third alias of teo holds two non-ASCII letters in the source; they are
\* written ^ and % here.
USER_MAPPINGS == <<
    Mapping("Flouflof", "florent", "florent@mobula.io",
            <<"florent", "flo", "floflo", "flouflof", "floflouf", "flou", "flouf">>),
    Mapping("cocyril", "cyril", "cyril@mobula.io", <<"cyril", "coco">>),
    Mapping("sacha_xyz", "sachadelox", "goat@mobula.io",
            <<"sachadelox", "delox", "sacha_xyz", "goat">>),
    Mapping("Mrg77i", "morgan", "morgan@mobula.io", <<"morgan", "mrg">>),
    Mapping("NBMXyeu", "teo", "teo@mobula.io", <<"teo", "t^%o", "xyeu">>),
    Mapping("NBMSacha", "sacha", "sacha@mobula.io", <<"sacha", "nbmsacha">>),
    Mapping("Sandy0209", "sanjay", "sanjay@mobula.io", <<"sandy", "sanjay", "sand">>),
    Mapping("thecryptogange", "aurelien", "aurelien@mobula.io", <<"aurelien", "aure">>),
    Mapping("KrabsP", "yassine", "yassine@mobula.io", <<"yassine", "krabs">>),
    Mapping("peterpan0x", "peter", "pantaovay@gmail.com", <<"peter", "peterpan", "pan">>),
    Mapping("Doven1995", "doven", "huangdongxc@gmail.com", <<"doven">>),
    Mapping("duwuxie1001", "jaxon", "duwenjie1001@gmail.com", <<"jaxon", "duwenjie">>) >>

NoMapping == [telegramUsername |-> Null]

\* the mapping found for an identifier, NoMapping when there is none
findLinearUserByIdentifier(identifier) ==
    With(replaceFirst(toLowerCase(identifier), "@", ""), LAMBDA normalizedId :
        LET Matches(user) ==
                \/ toLowerCase(user.telegramUsername) = normalizedId
                \/ toLowerCase(user.linearName) = normalizedId
                \/ toLowerCase(user.linearEmail) = normalizedId
                \/ \E a \in 1..Len(user.aliases) : toLowerCase(user.aliases[a]) = normalizedId
        IN  With(FindIndex(USER_MAPPINGS, Matches),
                 LAMBDA i : IF i = 0 THEN NoMapping ELSE USER_MAPPINGS[i]))

(***************************************************************************)
(* AIService: the tracker user cache and the identity resolver             *)
(***************************************************************************)
LinearUser(id, name, displayName, email) ==
    [id |-> id, name |-> name, displayName |-> displayName, email |-> email]

NoUser == [id |-> Null]

USERS_CACHE_TTL == 5 * 60 * 1000

\* a cache that is still fresh when its age is the TTL
cacheIsFreshAtTTL(cached, lastFetched, time) ==
    Len(cached) > 0 /\ time - lastFetched <= USERS_CACHE_TTL

cacheIsFresh(cached, lastFetched, time) ==
    Len(cached) > 0 /\ time - lastFetched < USERS_CACHE_TTL

\* a fetch that stamps the cache whatever the answer
fetchLinearUsersStamping(cached, lastFetched, time, response) ==
    IF cacheIsFresh(cached, lastFetched, time)
    THEN [linearUsers |-> cached, usersLastFetched |-> lastFetched, requests |-> 0]
    ELSE [linearUsers |-> IF response.kind = "list" THEN response.nodes ELSE cached,
          usersLastFetched |-> time, requests |-> 1]

\* fetchLinearUsers: the cache after a call at a time, and the number of requests
\* made.  response is the tracker's answer if it is asked: [kind |-> "error"] for
\* a request that fails, [kind |-> "nolist"] for an answer without a user list,
\* [kind |-> "list", nodes |-> users] otherwise
fetchLinearUsers(cached, lastFetched, time, response) ==
    IF cacheIsFresh(cached, lastFetched, time)
    THEN [linearUsers |-> cached, usersLastFetched |-> lastFetched, requests |-> 0]
    ELSE IF response.kind = "list"
    THEN [linearUsers |-> response.nodes, usersLastFetched |-> time, requests |-> 1]
    ELSE [linearUsers |-> cached, usersLastFetched |-> lastFetched, requests |-> 1]

\* email.split('@')[0].toLowerCase()
emailPrefix(email) == toLowerCase(splitFirst(email, "@"))

\* The strategies of findUserByName, each the index in the cached list of the
\* first user it matches, 0 when it matches none.
\* 1. exact email match
byExactEmail(mapping, users) ==
    With(toLowerCase(mapping.linearEmail), LAMBDA linearEmail :
        FindIndex(users, LAMBDA u : toLowerCase(u.email) = linearEmail))

\* 2. email prefix match
byEmailPrefix(mapping, users) ==
    With(emailPrefix(mapping.linearEmail), LAMBDA mappingEmailPrefix :
        FindIndex(users, LAMBDA u : emailPrefix(u.email) = mappingEmailPrefix))

\* 3. and 4. a name of the user contains linearName or the reverse
byName(linearName, names) ==
    With(toLowerCase(linearName), LAMBDA lower :
        FindIndex(names, LAMBDA n : With(toLowerCase(n), LAMBDA userName :
            includes(userName, lower) \/ includes(lower, userName))))

\* 5. the first alias, in the mapping's order, that some user matches
byAlias(mapping, users) ==
    LET AliasMatch(alias, u) ==
            \/ includes(toLowerCase(u.name), alias)
            \/ includes(toLowerCase(u.displayName), alias)
            \/ includes(emailPrefix(u.email), alias)
        hit(a) == With(toLowerCase(a), LAMBDA alias :
                      \E k \in 1..Len(users) : AliasMatch(alias, users[k]))
    IN  With(FindIndex(mapping.aliases, hit), LAMBDA first :
            IF first = 0 THEN 0
            ELSE With(toLowerCase(mapping.aliases[first]), LAMBDA alias :
                     FindIndex(users, LAMBDA u : AliasMatch(alias, u))))

\* the fallback: the direct search of the list
byDirect(normalizedName, users) ==
    LET DirectMatch(userName, displayName, prefix) ==
            \/ includes(userName, normalizedName)
            \/ includes(displayName, normalizedName)
            \/ includes(normalizedName, userName)
            \/ includes(normalizedName, displayName)
            \/ includes(prefix, normalizedName)
            \/ includes(normalizedName, prefix)
    IN  FindIndex(users, LAMBDA u :
            With(<<toLowerCase(u.name), toLowerCase(u.displayName), emailPrefix(u.email)>>,
                 LAMBDA l : DirectMatch(l[1], l[2], l[3])))

\* if (linearUser) return linearUser; else the next strategy
OrNext(i, next) == With(i, LAMBDA found : IF found # 0 THEN found ELSE next)

\* the strategies with the aliases tried first
byAliasFirst(mapping, users) ==
    OrNext(byAlias(mapping, users),
    OrNext(byExactEmail(mapping, users),
    OrNext(byEmailPrefix(mapping, users),
    OrNext(byName(mapping.linearName, [k \in 1..Len(users) |-> users[k].name]),
           byName(mapping.linearName, [k \in 1..Len(users) |-> users[k].displayName])))))

\* the strategies 1 to 5 in their order, under if (mapping)
byDirectory(mapping, users) ==
    OrNext(byExactEmail(mapping, users),
    OrNext(byEmailPrefix(mapping, users),
    OrNext(byName(mapping.linearName, [k \in 1..Len(users) |-> users[k].name]),
    OrNext(byName(mapping.linearName, [k \in 1..Len(users) |-> users[k].displayName]),
           byAlias(mapping, users)))))

\* the direct search alone, without the directory
findUserByNameDirect(name, users) ==
    With(byDirect(replaceFirst(trim(toLowerCase(name)), "@", ""), users),
         LAMBDA d : IF d = 0 THEN NoUser ELSE users[d])

\* findUserByName over the cached list: the user found, NoUser when none matches
findUserByName(name, users) ==
    With(replaceFirst(trim(toLowerCase(name)), "@", ""), LAMBDA normalizedName :
    With(findLinearUserByIdentifier(normalizedName), LAMBDA mapping :
    With(IF mapping = NoMapping THEN 0 ELSE byDirectory(mapping, users),
         LAMBDA i :
             IF i # 0 THEN users[i]
             ELSE With(byDirect(normalizedName, users),
                       LAMBDA d : IF d = 0 THEN NoUser ELSE users[d]))))

\* getUserIdByName, after its fetchLinearUsers: the id of the user found, or Null
getUserIdByName(name, users) == findUserByName(name, users).id

(***************************************************************************)
(* AIService.cleanJsonResponse                                             *)
(***************************************************************************)
LineTerminators == {"\n", "\r"}

\* A TLA+ string cannot hold a backquote: the model writes ~ for it, so that a
\* markdown code fence is ~~~.
Fence == "~~~"

\* the regular expression anchors ^ and $ under the m flag
AtLineStart(s, i) == i = 1 \/ Ch(s, i - 1) \in LineTerminators

AtLineEnd(s, i) == i > Len(s) \/ Ch(s, i) \in LineTerminators

\* the number of blank characters of s from position i on
RECURSIVE BlanksAt(_, _)
BlanksAt(s, i) ==
    IF i <= Len(s) /\ Ch(s, i) \in WhiteSpace THEN 1 + BlanksAt(s, i + 1) ELSE 0

\* the number of blank characters of s right before position i
RECURSIVE BlanksBefore(_, _)
BlanksBefore(s, i) ==
    IF i > 1 /\ Ch(s, i - 1) \in WhiteSpace THEN 1 + BlanksBefore(s, i - 1) ELSE 0

Least(S) == CHOOSE i \in S : \A j \in S : i <= j

Greatest(S) == CHOOSE i \in S : \A j \in S : i >= j

\* s without its characters from..upto
Cut(s, from, upto) == Slice(s, 1, from - 1) \o From(s, upto + 1)

\* .replace(/^<word>\s*/im, ''): the first <word> that starts a line, with the blanks after it
StripOpeningFence(s, word) ==
    LET at == {i \in 1..Len(s) :
                  AtLineStart(s, i) /\ toLowerCase(Slice(s, i, i + Len(word) - 1)) = word}
    IN  IF at = {} THEN s
        ELSE LET i == Least(at)
             IN  Cut(s, i, i + Len(word) - 1 + BlanksAt(s, i + Len(word)))

\* .replace(/\s*~~~\s*$/im, ''): the first fence that is followed, after blanks, by
\* the end of a line, with the blanks before it and the longest run of blanks after
\* it that stops at the end of a line
ClosingEnds(s, f) == {j \in 0..BlanksAt(s, f + 3) : AtLineEnd(s, f + 3 + j)}

StripClosingFence(s) ==
    LET at == {f \in 1..Len(s) : Slice(s, f, f + 2) = Fence /\ ClosingEnds(s, f) # {}}
    IN  IF at = {} THEN s
        ELSE LET f == Least(at)
             IN  Cut(s, f - BlanksBefore(s, f), f + 2 + Greatest(ClosingEnds(s, f)))

\* cleaned.match(/\{[\s\S]*\}/): from the first opening brace to the last closing
\* brace after it; Null when there is no match
MatchBraces(s) ==
    LET open == indexOf(s, "{")
        close == {j \in 1..Len(s) : Ch(s, j) = "}" /\ j > open}
    IN  IF open = 0 \/ close = {} THEN Null ELSE Slice(s, open, Greatest(close))

StripFences(content) ==
    LET cleaned == trim(StripClosingFence(StripOpeningFence(
                        StripOpeningFence(content, Fence \o "json"), Fence)))
    IN  IF includes(cleaned, Fence) /\ MatchBraces(cleaned) # Null
        THEN MatchBraces(cleaned) ELSE cleaned

\* the character walk.  inString is toggled at every quote whose previous
\* character is not a backslash, so at position i it is the parity of the number of
\* such quotes before i; inside a string newline, carriage return and tab are
\* written as their escapes, every other character is copied
EscapeControls(cleaned) ==
    LET toggles == {j \in 1..Len(cleaned) : Ch(cleaned, j) = "\"" /\ Ch(cleaned, j - 1) # "\\"}
        inString(i) == Cardinality({j \in toggles : j < i}) % 2 = 1
        piece(i) ==
            LET char == Ch(cleaned, i)
            IN  IF i \in toggles THEN char
                ELSE IF inString(i)
                THEN (CASE char = "\n" -> "\\n"
                        [] char = "\r" -> "\\r"
                        [] char = "\t" -> "\\t"
                        [] OTHER -> char)
                ELSE char
    IN  Join([i \in 1..Len(cleaned) |-> piece(i)], 1, Len(cleaned))

cleanJsonResponse(content) == EscapeControls(StripFences(content))

(***************************************************************************)
(* JSON.parse, for a text that holds one object whose values are strings,  *)
(* numbers with at most two decimals, or null.  A value is                 *)
(* [t |-> "str", v |-> text], [t |-> "num", v |-> its text] or             *)
(* [t |-> "null"]; an object is a function from its keys to values; the    *)
(* result is [ok |-> TRUE, v |-> object], or Fail where JSON.parse throws  *)
(* a SyntaxError.                                                          *)
(***************************************************************************)
JsonBlanks == {" ", "\n", "\r", "\t"}

JsonEscapes == {"\"", "\\", "/", "b", "f", "n", "r", "t"}

JsonControls == {"\n", "\r", "\t", "\f"}

Digits == {"0", "1", "2", "3", "4", "5", "6", "7", "8", "9"}

JsonEscaped(e) ==
    CASE e = "n" -> "\n"
      [] e = "r" -> "\r"
      [] e = "t" -> "\t"
      [] e = "f" -> "\f"
      [] e = "b" -> "<bs>"
      [] OTHER -> e

DigitValue(c) ==
    CASE c = "0" -> 0 [] c = "1" -> 1 [] c = "2" -> 2 [] c = "3" -> 3 [] c = "4" -> 4
      [] c = "5" -> 5 [] c = "6" -> 6 [] c = "7" -> 7 [] c = "8" -> 8 [] c = "9" -> 9

RECURSIVE SkipBlanks(_, _)
SkipBlanks(s, i) ==
    IF i <= Len(s) /\ Ch(s, i) \in JsonBlanks THEN SkipBlanks(s, i + 1) ELSE i

Fail == [ok |-> FALSE]

\* the characters that end the run of plain characters of a string literal
JsonSpecials == {"\"", "\\"} \cup JsonControls

\* the first position from lo on that holds one of them, 0 when none does: the
\* text is searched by stretches of ScanStretch characters
ScanStretch == 32

RECURSIVE FirstSpecial(_, _)
FirstSpecial(s, lo) ==
    IF lo > Len(s) THEN 0
    ELSE With({j \in lo..(lo + ScanStretch - 1) : Ch(s, j) \in JsonSpecials}, LAMBDA found :
             IF found # {} THEN Least(found) ELSE FirstSpecial(s, lo + ScanStretch))

\* the body of a string literal from position i (after the opening quote): plain
\* characters up to the closing quote or to an escape, and then what follows the
\* escape; a raw control character and an escape that JSON does not have make it
\* fail
RECURSIVE ReadStringBody(_, _)
ReadStringBody(s, i) ==
    With(FirstSpecial(s, i), LAMBDA p :
        IF p = 0 \/ Ch(s, p) \in JsonControls THEN Fail
        ELSE IF Ch(s, p) = "\""
        THEN [ok |-> TRUE, v |-> Slice(s, i, p - 1), next |-> p + 1]
        ELSE IF p + 1 > Len(s) \/ Ch(s, p + 1) \notin JsonEscapes THEN Fail
        ELSE With(ReadStringBody(s, p + 2), LAMBDA r :
                 IF r.ok
                 THEN [r EXCEPT !.v = Slice(s, i, p - 1) \o JsonEscaped(Ch(s, p + 1)) \o @]
                 ELSE Fail))

ReadString(s, i) ==
    IF i <= Len(s) /\ Ch(s, i) = "\"" THEN ReadStringBody(s, i + 1) ELSE Fail

\* a number: a digit, or a digit, "." and one or two digits; its value is kept as
\* its text
ReadNumber(s, i) ==
    LET d(k) == Ch(s, k) \in Digits
        len == IF ~d(i) \/ d(i + 1) THEN 0
               ELSE IF Ch(s, i + 1) # "." THEN 1
               ELSE IF ~d(i + 2) THEN 0
               ELSE IF ~d(i + 3) THEN 3
               ELSE IF ~d(i + 4) THEN 4
               ELSE 0
    IN  IF len = 0 THEN Fail
        ELSE [ok |-> TRUE, next |-> i + len, v |-> [t |-> "num", v |-> Slice(s, i, i + len - 1)]]

ReadValue(s, i) ==
    IF i > Len(s) THEN Fail
    ELSE IF Ch(s, i) = "\""
    THEN LET r == ReadString(s, i)
         IN  IF r.ok THEN [ok |-> TRUE, next |-> r.next, v |-> [t |-> "str", v |-> r.v]]
             ELSE Fail
    ELSE IF Slice(s, i, i + 3) = "null"
    THEN [ok |-> TRUE, next |-> i + 4, v |-> [t |-> "null"]]
    ELSE ReadNumber(s, i)

\* the members of an object from position i on (after "{" or ","), added to obj
RECURSIVE ReadMembers(_, _, _)
ReadMembers(s, i, obj) ==
    LET k == ReadString(s, SkipBlanks(s, i))
    IN  IF ~k.ok THEN Fail
        ELSE LET colon == SkipBlanks(s, k.next)
             IN  IF colon > Len(s) \/ Ch(s, colon) # ":" THEN Fail
                 ELSE LET val == ReadValue(s, SkipBlanks(s, colon + 1))
                      IN  IF ~val.ok THEN Fail
                          ELSE LET after == SkipBlanks(s, val.next)
                                   more == [key \in (DOMAIN obj) \cup {k.v} |->
                                               IF key = k.v THEN val.v ELSE obj[key]]
                               IN  IF after > Len(s) THEN Fail
                                   ELSE IF Ch(s, after) = "}"
                                   THEN [ok |-> TRUE, v |-> more, next |-> after + 1]
                                   ELSE IF Ch(s, after) = ","
                                   THEN ReadMembers(s, after + 1, more)
                                   ELSE Fail

EmptyObject == [key \in {} |-> Null]

JSONparse(text) ==
    LET start == SkipBlanks(text, 1)
    IN  IF start > Len(text) \/ Ch(text, start) # "{" THEN Fail
        ELSE LET first == SkipBlanks(text, start + 1)
                 r == IF first <= Len(text) /\ Ch(text, first) = "}"
                      THEN [ok |-> TRUE, v |-> EmptyObject, next |-> first + 1]
                      ELSE ReadMembers(text, start + 1, EmptyObject)
             IN  IF r.ok /\ SkipBlanks(text, r.next) > Len(text)
                 THEN [ok |-> TRUE, v |-> r.v] ELSE Fail

\* a string value as JSON text; raw leaves newline, carriage return and tab unescaped
JsonBody(v, raw) ==
    LET piece(c) ==
            CASE c = "\"" -> "\\\""
              [] c = "\\" -> "\\\\"
              [] c = "\n" /\ ~raw -> "\\n"
              [] c = "\r" /\ ~raw -> "\\r"
              [] c = "\t" /\ ~raw -> "\\t"
              [] OTHER -> c
    IN  Join([i \in 1..Len(v) |-> piece(Ch(v, i))], 1, Len(v))

\* JSON.stringify of a string
JSONstringify(v) == "\"" \o JsonBody(v, FALSE) \o "\""

(***************************************************************************)
(* AIService.parseCommand, from the oracle's answer on                     *)
(***************************************************************************)
CommandFields == {"action", "ticketIdentifier", "assigneeName", "newStatus", "title",
                  "description", "editField", "newValue", "confidence"}

\* obj.k of a decoded object; a number is held as its text
Field(obj, k) ==
    IF k \notin DOMAIN obj THEN Undefined
    ELSE IF obj[k].t = "null" THEN Null
    ELSE obj[k].v

\* the decoded object read as a ParsedCommand
AsCommand(obj) == [k \in CommandFields |-> Field(obj, k)]

\* the sentinel strings become null; an assignee that resolves is replaced by the
\* tracker user's name, one that does not is kept as the oracle gave it
validateAssignee(parsed, users) ==
    LET assigneeName == IF parsed.assigneeName \in {"null", "undefined", ""}
                        THEN Null ELSE parsed.assigneeName
        matchedUser == findUserByName(assigneeName, users)
    IN  IF Falsy(assigneeName) THEN [parsed EXCEPT !.assigneeName = assigneeName]
        ELSE IF matchedUser # NoUser THEN [parsed EXCEPT !.assigneeName = matchedUser.name]
        ELSE [parsed EXCEPT !.assigneeName = assigneeName]

\* parseCommand returning null
NoCommand == [null |-> TRUE]

\* what the oracle's answer decodes to; content is Null when the call failed or
\* brought no content
decodeCommand(content) ==
    IF Falsy(content) THEN NoCommand
    ELSE LET parsed == JSONparse(cleanJsonResponse(content))
         IN  IF ~parsed.ok THEN NoCommand ELSE AsCommand(parsed.v)

resolveCommand(decoded, users) ==
    IF decoded = NoCommand THEN NoCommand ELSE validateAssignee(decoded, users)

parseCommand(content, users) == resolveCommand(decodeCommand(content), users)

(***************************************************************************)
(* LinearTrackerBot.escapeGraphQLString                                    *)
(***************************************************************************)
\* the same chain with the quote escaped before the backslash
escapeQuoteFirst(str) ==
    ReplaceAll(ReplaceAll(ReplaceAll(ReplaceAll(ReplaceAll(str,
        "\"", "\\\""), "\\", "\\\\"), "\n", "\\n"), "\r", "\\r"), "\t", "\\t")

escapeGraphQLString(str) ==
    ReplaceAll(ReplaceAll(ReplaceAll(ReplaceAll(ReplaceAll(str,
        "\\", "\\\\"), "\"", "\\\""), "\n", "\\n"), "\r", "\\r"), "\t", "\\t")

(***************************************************************************)
(* A conformant reader of the body of a GraphQL string literal: the text   *)
(* between the two quotes.  A raw quote ends the literal, a raw line       *)
(* terminator is not allowed in it, a backslash starts an escape.          *)
(***************************************************************************)
GraphQLEscapes == {"\"", "\\", "/", "b", "f", "n", "r", "t"}

GraphQLEscaped(e) ==
    CASE e = "n" -> "\n"
      [] e = "r" -> "\r"
      [] e = "t" -> "\t"
      [] e = "f" -> "\f"
      [] e = "b" -> "<bs>"
      [] OTHER -> e

\* the number of backslashes in a row that end at position i
RECURSIVE BackslashesUpTo(_, _)
BackslashesUpTo(s, i) ==
    IF i >= 1 /\ Ch(s, i) = "\\" THEN 1 + BackslashesUpTo(s, i - 1) ELSE 0

\* the text a literal body stands for, Invalid when it is not the body of a
\* literal.  A backslash starts an escape when an even number of backslashes
\* comes right before it.
UnescapeGraphQL(body) ==
    With(body, LAMBDA s :
    LET starts(i) == Ch(s, i) = "\\" /\ BackslashesUpTo(s, i - 1) % 2 = 0
        escaped(i) == i > 1 /\ starts(i - 1)
        bad(i) == IF starts(i) THEN Ch(s, i + 1) \notin GraphQLEscapes
                  ELSE ~escaped(i) /\ Ch(s, i) \in {"\"", "\n", "\r"}
        piece(i) == IF starts(i) THEN ""
                    ELSE IF escaped(i) THEN GraphQLEscaped(Ch(s, i))
                    ELSE Ch(s, i)
    IN  IF \E i \in 1..Len(s) : bad(i) THEN Invalid
        ELSE Join([i \in 1..Len(s) |-> piece(i)], 1, Len(s)))

(***************************************************************************)
(* Numbers as text                                                         *)
(***************************************************************************)
DigitText(d) == Ch("0123456789", d + 1)

RECURSIVE NatToString(_)
NatToString(n) ==
    IF n < 10 THEN DigitText(n) ELSE NatToString(n \div 10) \o DigitText(n % 10)

\* String(n): the text the store keeps of a number field
NumberToString(n) == IF n < 0 THEN "-" \o NatToString(0 - n) ELSE NatToString(n)

RECURSIVE LeadingDigits(_, _)
LeadingDigits(s, acc) ==
    IF s = "" \/ Ch(s, 1) \notin Digits THEN acc
    ELSE LeadingDigits(From(s, 2), acc * 10 + DigitValue(Ch(s, 1)))

\* Number.parseInt(s, 10) of a text that starts with an optional sign and a digit
parseInt(s) ==
    IF Ch(s, 1) = "-" THEN 0 - LeadingDigits(From(s, 2), 0) ELSE LeadingDigits(s, 0)

\* Date.prototype.toISOString: the text of an instant
toISOString(t) == "T" \o NumberToString(t)

\* String.prototype.split(sep) for a one-character separator
RECURSIVE split(_, _)
split(s, sep) ==
    LET i == indexOf(s, sep)
    IN  IF i = 0 THEN <<s>> ELSE <<Slice(s, 1, i - 1)>> \o split(From(s, i + 1), sep)

\* Array.prototype.join(sep) of the elements from position i on
RECURSIVE join(_, _, _)
join(parts, i, sep) ==
    IF i > Len(parts) THEN ""
    ELSE IF i = Len(parts) THEN parts[i]
    ELSE parts[i] \o sep \o join(parts, i + 1, sep)

\* text.replace(new RegExp(word, 'gi'), ''): every occurrence, in any letter case
RECURSIVE removeAll(_, _)
removeAll(text, word) ==
    With(<<text, indexOf(toLowerCase(text), toLowerCase(word))>>, LAMBDA a :
        IF a[2] = 0 \/ word = "" THEN a[1]
        ELSE Slice(a[1], 1, a[2] - 1) \o removeAll(From(a[1], a[2] + Len(word)), word))

\* a || b for values that are strings, null or undefined
OrElse(a, b) == IF Falsy(a) THEN b ELSE a

(***************************************************************************)
(* The surroundings: configuration, chats, senders, the tracker            *)
(***************************************************************************)
\* the default of TELEGRAM_ALLOWED_USERNAMES
TELEGRAM_ALLOWED_USERNAMES == "Sandy0209,NBMSacha,NBMXyeu,sol_knowz"

\* new Set(usernames.split(',').map((u) => u.trim()).filter(Boolean))
allowedUsernames ==
    LET parts == split(TELEGRAM_ALLOWED_USERNAMES, ",")
    IN  {trim(parts[i]) : i \in 1..Len(parts)} \ {""}

\* the check that asks for a username only
hasUsername(username) == ~Falsy(username)

isUserAuthorized(username) == ~Falsy(username) /\ username \in allowedUsernames

\* the username getMe reports for the bot
BotName == "LinearBot"

Chat(id, type, title) == [id |-> id, type |-> type, title |-> title]

Chats == {Chat(7, "private", Undefined), Chat(-42, "group", "Dev")}

ChatIds == {c.id : c \in Chats}

Sender(username, first_name) == [username |-> username, first_name |-> first_name]

Sandy == Sender("Sandy0209", "Sandy")

Senders == {Sandy, Sender("mallory", "Mal"), Sender(Undefined, "Anon")}

\* The tracker holds the issues 0..MaxIssues: issue 0 exists from the start and
\* was not created through the bot, the others are created by issueCreate.
MaxIssues == 1

\* a chat takes MaxHistory messages with text, the program MaxDeliveries deliveries
MaxHistory == 1

MaxDeliveries == 2

IssueNumbers == 0..MaxIssues

IssueId(n) == "i" \o NatToString(n)

IdentifierOf(n) == "MOB-" \o NatToString(n)

IssueIds == {IssueId(n) : n \in IssueNumbers}

Identifiers == {IdentifierOf(n) : n \in IssueNumbers}

\* the workflow states of the team
WorkflowStates == << [id |-> "s1", name |-> "Todo"],
                     [id |-> "s2", name |-> "In Progress"],
                     [id |-> "s3", name |-> "Done"] >>

\* the users of the tracker
Team == << LinearUser("u1", "Florent T", "flo", "florent@mobula.io"),
           LinearUser("u2", "Sacha Marcus", "sacha", "sacha@mobula.io"),
           LinearUser("u3", "Delox", "sachadelox", "goat@mobula.io"),
           LinearUser("u4", "Bob Stone", "bob", "bob@ext.io") >>

\* the answers of the tracker to the user-list query
UsersAnswers == {[kind |-> "error"], [kind |-> "list", nodes |-> Team]}

\* issue(id: x): the number of the issue with that id or identifier, -1 when the
\* tracker has none
FindIssue(trk, x) ==
    LET found == {n \in IssueNumbers :
                     trk[n] \in {"open", "archived"} /\ x \in {IssueId(n), IdentifierOf(n)}}
    IN  IF found = {} THEN 0 - 1 ELSE CHOOSE n \in found : TRUE

\* the numbers issueCreate can give to a new issue
FreeNumbers(trk) == {n \in IssueNumbers : trk[n] = "none"}

\* the number issueCreate gives to a new issue, -1 when it gives none
NextNumber(trk) ==
    IF FreeNumbers(trk) = {} THEN 0 - 1
    ELSE CHOOSE n \in FreeNumbers(trk) : \A m \in FreeNumbers(trk) : n <= m

\* what the tracker does with a request, beside what the request says:
\*   lookup, states, mutation  "ok", "refused" (an answer without the data) or
\*                             "error" (the request fails)
\*   users                     the answer to the user-list query
\*   number                    the number issueCreate gives to the issue
TrackerMoods(trk) ==
    [lookup : {"ok", "error"}, states : {"ok", "refused", "error"},
     mutation : {"ok", "refused", "error"}, users : UsersAnswers,
     number : {NextNumber(trk)}]

MutationOps == {"issueCreate", "issueUpdate", "issueArchive", "issueDelete"}

QueryOps == {"issue", "workflowStates", "users"}

\* the requests of a sequence of tracker requests that are mutations
Mutations(calls) == SelectSeq(calls, LAMBDA call : call.op \in MutationOps)

(***************************************************************************)
(* The issue store                                                         *)
(***************************************************************************)
\* hgetall of a key that does not exist
NoRecord == [absent |-> TRUE]

\* the part of the program state the action handlers read and write
Held == [store |-> store, chatIssues |-> chatIssues, tracker |-> tracker,
         linearUsers |-> linearUsers, usersLastFetched |-> usersLastFetched]

hset(S, issueId, record) == [S EXCEPT !.store[issueId] = record]

del(S, issueId) == [S EXCEPT !.store[issueId] = NoRecord]

sadd(S, chatId, issueId) == [S EXCEPT !.chatIssues[chatId] = @ \cup {issueId}]

srem(S, chatId, issueId) == [S EXCEPT !.chatIssues[chatId] = @ \ {issueId}]
(***************************************************************************)
(* A reader of the text of an issueUpdate mutation, as the tracker reads   *)
(* it: blanks, commas and comments are skipped, a string literal runs to   *)
(* its first raw quote.  It gives the names of the fields of the input     *)
(* object, Invalid when the text is not a mutation of this shape.          *)
(***************************************************************************)
NameChars ==
    {Ch("abcdefghijklmnopqrstuvwxyzABCDEFGHIJKLMNOPQRSTUVWXYZ_0123456789", i) : i \in 1..63}

Punctuators == {"{", "}", "(", ")", ":"}

\* the first position from i on whose character is in chars, Len(s) + 1 when none
NextIn(s, i, chars) ==
    LET at == {j \in i..Len(s) : Ch(s, j) \in chars}
    IN  IF at = {} THEN Len(s) + 1 ELSE CHOOSE j \in at : \A k \in at : j <= k

\* the first position from i on whose character is not in chars
NextOut(s, i, chars) ==
    LET at == {j \in i..Len(s) : Ch(s, j) \notin chars}
    IN  IF at = {} THEN Len(s) + 1 ELSE CHOOSE j \in at : \A k \in at : j <= k

\* the position of the quote that closes the literal opened at i, 0 when none
ClosingQuote(s, i) ==
    LET at == {j \in (i + 1)..Len(s) :
                  Ch(s, j) = "\"" /\ BackslashesUpTo(s, j - 1) % 2 = 0}
    IN  IF at = {} THEN 0 ELSE CHOOSE j \in at : \A k \in at : j <= k

\* what the reader gives of a text it cannot read
Unreadable == <<Invalid>>

Ignored == WhiteSpace \cup {","}

\* the text from position i on with every string literal replaced by the mark
\* $ and every comment left out; a literal that does not end, or whose body is
\* not one of a literal, leaves the mark ! of a text that cannot be read
RECURSIVE Unquoted(_, _)
Unquoted(s, i) ==
    With(NextIn(s, i, {"\"", "#", "$"}), LAMBDA p :
        IF p > Len(s) THEN From(s, i)
        ELSE IF Ch(s, p) = "$" THEN "!"
        ELSE IF Ch(s, p) = "#"
        THEN Slice(s, i, p - 1) \o Unquoted(s, NextIn(s, p, LineTerminators))
        ELSE With(ClosingQuote(s, p), LAMBDA j :
                 IF j = 0 THEN "!"
                 ELSE IF UnescapeGraphQL(Slice(s, p + 1, j - 1)) = Invalid THEN "!"
                 ELSE Slice(s, i, p - 1) \o " $ " \o Unquoted(s, j + 1)))

\* the positions of a text without literals where a token starts
TokenStarts(s) ==
    {p \in 1..Len(s) :
        \/ Ch(s, p) \in Punctuators \cup {"$"}
        \/ Ch(s, p) \in NameChars /\ Ch(s, p - 1) \notin NameChars}

TokenAt(s, p) ==
    IF Ch(s, p) = "$" THEN "S"
    ELSE IF Ch(s, p) \in Punctuators THEN Ch(s, p)
    ELSE IF Ch(s, p) \in Digits THEN "I"
    ELSE "N:" \o Slice(s, p, NextOut(s, p, NameChars) - 1)

\* the tokens of a text without literals, in their order
PlainTokens(s) ==
    IF \E p \in 1..Len(s) : Ch(s, p) \notin Punctuators \cup NameChars \cup Ignored \cup {"$"}
    THEN Unreadable
    ELSE With(TokenStarts(s), LAMBDA starts :
             [k \in 1..Cardinality(starts) |->
                 TokenAt(s, CHOOSE p \in starts :
                                Cardinality({q \in starts : q < p}) = k - 1)])

Tokens(s) == PlainTokens(Unquoted(s, 1))

IsName(token) == Slice(token, 1, 2) = "N:"

\* the fields name: value from position i of the tokens up to the brace that
\* closes the object: their names and the position after the brace, 0 when the
\* tokens are not those of an object
RECURSIVE ObjectFields(_, _, _)
ObjectFields(t, i, names) ==
    IF i > Len(t) THEN [names |-> names, next |-> 0]
    ELSE IF t[i] = "}" THEN [names |-> names, next |-> i + 1]
    ELSE IF /\ i + 2 <= Len(t)
            /\ IsName(t[i])
            /\ t[i + 1] = ":"
            /\ (t[i + 2] \in {"S", "I"} \/ IsName(t[i + 2]))
    THEN ObjectFields(t, i + 3, Append(names, From(t[i], 3)))
    ELSE [names |-> names, next |-> 0]

\* the braces open after the first n tokens
Depth(t, n) ==
    Cardinality({k \in 1..n : t[k] = "{"}) - Cardinality({k \in 1..n : t[k] = "}"})

\* t is a selection set followed by the brace that closes the operation
ClosesOperation(t) ==
    /\ Len(t) >= 4
    /\ t[1] = "{"
    /\ \A n \in 1..Len(t) : t[n] \in {"{", "}"} \/ IsName(t[n])
    /\ \A n \in 1..(Len(t) - 1) : Depth(t, n) >= 0
    /\ Depth(t, Len(t)) = 0 - 1

UpdateHead ==
    <<"N:mutation", "{", "N:issueUpdate", "(", "N:id", ":", "S", "N:input", ":", "{">>

FieldsRead(t) ==
    IF Len(t) < Len(UpdateHead) THEN Unreadable
    ELSE IF SubSeq(t, 1, Len(UpdateHead)) # UpdateHead THEN Unreadable
    ELSE With(ObjectFields(t, Len(UpdateHead) + 1, <<>>), LAMBDA o :
             IF o.next = 0 \/ o.next > Len(t) THEN Unreadable
             ELSE IF t[o.next] # ")" THEN Unreadable
             ELSE IF ~ClosesOperation(SubSeq(t, o.next + 1, Len(t))) THEN Unreadable
             ELSE o.names)

InputFields(query) == With(query, LAMBDA q : FieldsRead(Tokens(q)))

(***************************************************************************)
(* LinearTrackerBot: the requests to the tracker                           *)
(***************************************************************************)
\* What a handler did: the state it leaves, its requests to the tracker in
\* order, the text it leaves in the chat, its writes to the store in order and,
\* for a created ticket, the assignee its message shows.
Did(S, calls, reply, writes, shown) ==
    [S |-> S, calls |-> calls, reply |-> reply, writes |-> writes, shown |-> shown]

\* the tracker reads the string literals of a mutation: one it cannot read makes
\* the request fail
Readable(literals) == \A i \in 1..Len(literals) : UnescapeGraphQL(literals[i]) # Invalid

\* the outcome of posting a mutation: "ok", "refused" or "error"
Post(env, literals) ==
    IF ~Readable(literals) THEN "error" ELSE env.mutation

getIssueIdFromIdentifier(S, identifier, env) ==
    LET n == FindIssue(S.tracker, identifier)
    IN  [id |-> IF env.lookup = "ok" /\ n >= 0 THEN IssueId(n) ELSE Null,
         calls |-> <<[op |-> "issue", id |-> identifier]>>]

\* getStateIdByName with a state found when its name contains the name given
getStateIdByNameIncluded(statusName, env) ==
    LET normalizedStatus == trim(toLowerCase(statusName))
        Matches(s) == includes(toLowerCase(s.name), normalizedStatus)
        i == FindIndex(WorkflowStates, Matches)
    IN  [id |-> IF env.states = "ok" /\ i # 0 THEN WorkflowStates[i].id ELSE Null,
         calls |-> <<[op |-> "workflowStates"]>>]

getStateIdByName(statusName, env) ==
    LET normalizedStatus == trim(toLowerCase(statusName))
        Matches(s) == toLowerCase(s.name) = normalizedStatus
        i == FindIndex(WorkflowStates, Matches)
    IN  [id |-> IF env.states = "ok" /\ i # 0 THEN WorkflowStates[i].id ELSE Null,
         calls |-> <<[op |-> "workflowStates"]>>]

\* AIService.getUserIdByName with the fetchLinearUsers it starts with
resolveUserId(S, name, env) ==
    LET f == fetchLinearUsers(S.linearUsers, S.usersLastFetched, now, env.users)
    IN  [id |-> getUserIdByName(name, f.linearUsers),
         S |-> [S EXCEPT !.linearUsers = f.linearUsers,
                         !.usersLastFetched = f.usersLastFetched],
         calls |-> IF f.requests = 1 THEN <<[op |-> "users"]>> ELSE <<>>]

NoIssue == [id |-> Null]

\* the name of the tracker user with an id, Null when there is none
UserNameOf(id) ==
    LET at == {i \in 1..Len(Team) : Team[i].id = id}
    IN  IF at = {} THEN Null ELSE Team[CHOOSE i \in at : TRUE].name

\* createLinearIssue with the title interpolated as it is
createLinearIssueRawTitle(S, title, description, assigneeId, env) ==
    LET Escaped(escapedTitle, escapedDescription) ==
            LET call == [op |-> "issueCreate", title |-> escapedTitle, titleText |-> title,
                         description |-> escapedDescription,
                         descriptionText |-> description, assigneeId |-> assigneeId]
                n == env.number
            IN  IF Post(env, <<escapedTitle, escapedDescription>>) = "ok" /\ n >= 0
                THEN [issue |-> [id |-> IssueId(n), identifier |-> IdentifierOf(n),
                                 title |-> UnescapeGraphQL(escapedTitle),
                                 state |-> [name |-> "Todo"],
                                 assignee |-> [id |-> assigneeId,
                                               name |-> UserNameOf(assigneeId)]],
                      S |-> [S EXCEPT !.tracker[n] = "open"], calls |-> <<call>>]
                ELSE [issue |-> NoIssue, S |-> S, calls |-> <<call>>]
    IN  With(<<title, escapeGraphQLString(description)>>,
             LAMBDA e : Escaped(e[1], e[2]))

createLinearIssue(S, title, description, assigneeId, env) ==
    LET Escaped(escapedTitle, escapedDescription) ==
            LET call == [op |-> "issueCreate", title |-> escapedTitle, titleText |-> title,
                         description |-> escapedDescription,
                         descriptionText |-> description, assigneeId |-> assigneeId]
                n == env.number
            IN  IF Post(env, <<escapedTitle, escapedDescription>>) = "ok" /\ n >= 0
                THEN [issue |-> [id |-> IssueId(n), identifier |-> IdentifierOf(n),
                                 title |-> UnescapeGraphQL(escapedTitle),
                                 state |-> [name |-> "Todo"],
                                 assignee |-> [id |-> assigneeId,
                                               name |-> UserNameOf(assigneeId)]],
                      S |-> [S EXCEPT !.tracker[n] = "open"], calls |-> <<call>>]
                ELSE [issue |-> NoIssue, S |-> S, calls |-> <<call>>]
    IN  With(<<escapeGraphQLString(title), escapeGraphQLString(description)>>,
             LAMBDA e : Escaped(e[1], e[2]))

(***************************************************************************)
(* LinearTrackerBot: the action handlers.  ctx is [chat, from, message_id]. *)
(***************************************************************************)
chatNameOf(ctx) ==
    IF ctx.chat.type = "private"
    THEN "Private chat with " \o OrElse(ctx.from.username, OrElse(ctx.from.first_name, "Unknown"))
    ELSE OrElse(ctx.chat.title, "Unknown Group")

\* a value of the object given to redis.hset, as the client writes it: null and
\* undefined are written as the empty string
toArg(v) == IF v \in {Null, Undefined} THEN "" ELSE v

IssueData(ctx, team, issue, description) ==
    [chatId |-> NumberToString(ctx.chat.id), username |-> toArg(ctx.from.username),
     firstName |-> toArg(ctx.from.first_name),
     lastName |-> toArg(IF "last_name" \in DOMAIN ctx.from THEN ctx.from.last_name
                        ELSE Undefined),
     team |-> team, issueId |-> issue.id,
     identifier |-> issue.identifier, title |-> issue.title, description |-> description,
     status |-> OrElse(issue.state.name, "Open"),
     createdAt |-> toISOString(now), updatedAt |-> toISOString(now), comments |-> Undefined]

\* handleCreateAction without its check of the title
handleCreateActionUnchecked(S, ctx, command, env) ==
    With(IF ~Falsy(command.assigneeName)
         THEN resolveUserId(S, command.assigneeName, env)
         ELSE [id |-> Null, S |-> S, calls |-> <<>>], LAMBDA r :
    With(chatNameOf(ctx), LAMBDA chatName :
    With(createLinearIssue(r.S, command.title,
             OrElse(command.description, "") \o "\n\n---\n"
             \o "**Context:** " \o chatName
             \o " (Message #" \o NumberToString(ctx.message_id) \o ")"
             \o "\n**Requested by:** @"
             \o OrElse(ctx.from.username, OrElse(ctx.from.first_name, "Unknown")),
             r.id, env), LAMBDA c :
    With(c.issue, LAMBDA issue :
        IF issue = NoIssue
        THEN Did(c.S, r.calls \o c.calls, "Failed to create ticket", <<>>, Null)
        ELSE Did(sadd(hset(c.S, issue.id,
                           IssueData(ctx,
                                     IF ctx.chat.type = "private"
                                     THEN OrElse(ctx.from.username, "PrivateChat")
                                     ELSE chatName,
                                     issue, OrElse(command.description, ""))),
                      ctx.chat.id, issue.id),
                 r.calls \o c.calls, "Ticket Created Successfully!",
                 << [op |-> "hset", id |-> issue.id],
                    [op |-> "sadd", chat |-> ctx.chat.id, id |-> issue.id] >>,
                 \* actualAssignee
                 OrElse(issue.assignee.name,
                        OrElse(command.assigneeName, "Unassigned")))))))

handleCreateAction(S, ctx, command, env) ==
    IF Falsy(command.title)
    THEN Did(S, <<>>, "Could not determine ticket title", <<>>, Null)
    ELSE With(IF ~Falsy(command.assigneeName)
              THEN resolveUserId(S, command.assigneeName, env)
              ELSE [id |-> Null, S |-> S, calls |-> <<>>], LAMBDA r :
         With(chatNameOf(ctx), LAMBDA chatName :
         With(createLinearIssue(r.S, command.title,
                  OrElse(command.description, "") \o "\n\n---\n"
                  \o "**Context:** " \o chatName
                  \o " (Message #" \o NumberToString(ctx.message_id) \o ")"
                  \o "\n**Requested by:** @"
                  \o OrElse(ctx.from.username, OrElse(ctx.from.first_name, "Unknown")),
                  r.id, env), LAMBDA c :
         With(c.issue, LAMBDA issue :
             IF issue = NoIssue
             THEN Did(c.S, r.calls \o c.calls, "Failed to create ticket", <<>>, Null)
             ELSE Did(sadd(hset(c.S, issue.id,
                                IssueData(ctx,
                                          IF ctx.chat.type = "private"
                                          THEN OrElse(ctx.from.username, "PrivateChat")
                                          ELSE chatName,
                                          issue, OrElse(command.description, ""))),
                           ctx.chat.id, issue.id),
                      r.calls \o c.calls, "Ticket Created Successfully!",
                      << [op |-> "hset", id |-> issue.id],
                         [op |-> "sadd", chat |-> ctx.chat.id, id |-> issue.id] >>,
                      \* actualAssignee
                      OrElse(issue.assignee.name,
                             OrElse(command.assigneeName, "Unassigned")))))))

\* the tail all the handlers of an update share: post the mutation, report
\* the text of the mutation of handleEditAction for one field
updateMutation(issueId, field, literal) ==
    "\n mutation {\n issueUpdate(id: \"" \o issueId \o "\", input: { " \o field \o ": \""
        \o literal \o "\" }) {\n success\n issue { "
        \o (CASE field = "assigneeId" -> "assignee { name }"
              [] field = "stateId" -> "state { name }"
              [] OTHER -> field)
        \o " }\n }\n }"

\* the fields the tracker reads in the input of an issueUpdate the bot sent
FieldsOf(call) == InputFields(updateMutation(call.id, call.field, call.literal))

\* the outcome of posting an issueUpdate: one the tracker cannot read makes the
\* request fail
PostUpdate(env, issueId, field, literal) ==
    IF InputFields(updateMutation(issueId, field, literal)) = Unreadable
    THEN "error" ELSE env.mutation

issueUpdate(S, env, lookup, issueId, field, literal, text, done, failed, error) ==
    With(PostUpdate(env, issueId, field, literal), LAMBDA posted :
        Did(S, lookup \o << [op |-> "issueUpdate", id |-> issueId, field |-> field,
                             literal |-> literal, text |-> text] >>,
            CASE posted = "ok" -> done [] posted = "refused" -> failed [] OTHER -> error,
            <<>>, Null))

\* handleAssignAction without its check of the ticket identifier
handleAssignActionUnchecked(S, ctx, ticketIdentifier, assigneeName, env) ==
    IF Falsy(assigneeName)
    THEN Did(S, <<>>, "Could not identify the assignee", <<>>, Null)
    ELSE With(getIssueIdFromIdentifier(S, ticketIdentifier, env), LAMBDA t :
         IF t.id = Null THEN Did(S, t.calls, "Ticket not found", <<>>, Null)
         ELSE With(resolveUserId(S, assigneeName, env), LAMBDA u :
              IF u.id = Null
              THEN Did(u.S, t.calls \o u.calls, "User not found", <<>>, Null)
              ELSE issueUpdate(u.S, env, t.calls \o u.calls, t.id, "assigneeId", u.id,
                               u.id, "Ticket assigned", "Failed to assign ticket",
                               "Error assigning ticket")))

handleAssignAction(S, ctx, ticketIdentifier, assigneeName, env) ==
    IF Falsy(ticketIdentifier)
    THEN Did(S, <<>>, "Could not identify the ticket", <<>>, Null)
    ELSE IF Falsy(assigneeName)
    THEN Did(S, <<>>, "Could not identify the assignee", <<>>, Null)
    ELSE With(getIssueIdFromIdentifier(S, ticketIdentifier, env), LAMBDA t :
         IF t.id = Null THEN Did(S, t.calls, "Ticket not found", <<>>, Null)
         ELSE With(resolveUserId(S, assigneeName, env), LAMBDA u :
              IF u.id = Null
              THEN Did(u.S, t.calls \o u.calls, "User not found", <<>>, Null)
              ELSE issueUpdate(u.S, env, t.calls \o u.calls, t.id, "assigneeId", u.id,
                               u.id, "Ticket assigned", "Failed to assign ticket",
                               "Error assigning ticket")))

handleStatusAction(S, ctx, ticketIdentifier, newStatus, env) ==
    IF Falsy(ticketIdentifier)
    THEN Did(S, <<>>, "Could not identify the ticket", <<>>, Null)
    ELSE IF Falsy(newStatus)
    THEN Did(S, <<>>, "Could not identify the status", <<>>, Null)
    ELSE With(getIssueIdFromIdentifier(S, ticketIdentifier, env), LAMBDA t :
         IF t.id = Null THEN Did(S, t.calls, "Ticket not found", <<>>, Null)
         ELSE With(getStateIdByName(newStatus, env), LAMBDA s :
              IF s.id = Null
              THEN Did(S, t.calls \o s.calls, "Status not found", <<>>, Null)
              ELSE issueUpdate(S, env, t.calls \o s.calls, t.id, "stateId", s.id, s.id,
                               "Ticket status updated", "Failed to update ticket",
                               "Error updating ticket status")))

handleEditAction(S, ctx, ticketIdentifier, editField, newValue, assigneeName, env) ==
    IF Falsy(ticketIdentifier)
    THEN Did(S, <<>>, "Could not identify the ticket", <<>>, Null)
    ELSE IF Falsy(editField) \/ editField = "menu"
    THEN Did(S, <<>>, "What would you like to edit?", <<>>, Null)
    ELSE With(getIssueIdFromIdentifier(S, ticketIdentifier, env), LAMBDA t :
         IF t.id = Null THEN Did(S, t.calls, "Ticket not found", <<>>, Null)
         ELSE CASE editField = "title" ->
                IF Falsy(newValue)
                THEN Did(S, t.calls, "Please provide a new title", <<>>, Null)
                ELSE With(ReplaceAll(newValue, "\"", "\\\""), LAMBDA escapedTitle :
                     issueUpdate(S, env, t.calls, t.id, "title", escapedTitle, newValue,
                                 "Ticket title updated!", "Failed to update title",
                                 "Error editing ticket"))
           [] editField = "description" ->
                With(ReplaceAll(OrElse(newValue, ""), "\"", "\\\""), LAMBDA escapedDesc :
                     issueUpdate(S, env, t.calls, t.id, "description", escapedDesc,
                                 OrElse(newValue, ""), "Ticket description updated!",
                                 "Failed to update description", "Error editing ticket"))
           [] editField = "assignee" ->
                With(IF ~Falsy(assigneeName) THEN resolveUserId(S, assigneeName, env)
                     ELSE [id |-> Null, S |-> S, calls |-> <<>>], LAMBDA u :
                     IF u.id = Null
                     THEN Did(u.S, t.calls \o u.calls, "User not found", <<>>, Null)
                     ELSE issueUpdate(u.S, env, t.calls \o u.calls, t.id, "assigneeId",
                                      u.id, u.id, "Ticket assignee updated!",
                                      "Failed to update assignee", "Error editing ticket"))
           [] editField = "status" ->
                With(getStateIdByName(OrElse(newValue, ""), env), LAMBDA s :
                     IF s.id = Null
                     THEN Did(S, t.calls \o s.calls, "Status not found", <<>>, Null)
                     ELSE issueUpdate(S, env, t.calls \o s.calls, t.id, "stateId",
                                      s.id, s.id, "Ticket status updated!",
                                      "Failed to update status", "Error editing ticket"))
           [] OTHER -> Did(S, t.calls, "Unknown field to edit", <<>>, Null))

handleDeleteAction(S, ctx, ticketIdentifier, env) ==
    IF Falsy(ticketIdentifier)
    THEN Did(S, <<>>, "Could not identify the ticket", <<>>, Null)
    ELSE With(getIssueIdFromIdentifier(S, ticketIdentifier, env), LAMBDA t :
         IF t.id = Null THEN Did(S, t.calls, "Ticket not found", <<>>, Null)
         ELSE With(Post(env, <<>>), LAMBDA posted :
              IF posted = "ok"
              THEN Did(srem(del([S EXCEPT !.tracker[FindIssue(S.tracker, t.id)] = "deleted"],
                                t.id), ctx.chat.id, t.id),
                       t.calls \o <<[op |-> "issueDelete", id |-> t.id]>>,
                       "Ticket Permanently Deleted",
                       << [op |-> "del", id |-> t.id],
                          [op |-> "srem", chat |-> ctx.chat.id, id |-> t.id] >>, Null)
              ELSE Did(S, t.calls \o <<[op |-> "issueDelete", id |-> t.id]>>,
                       IF posted = "refused" THEN "Failed to delete ticket"
                       ELSE "Error deleting ticket", <<>>, Null)))

\* an archive that removes the record first, whatever the tracker answers
archiveEager(S, env, lookup, issueId, done, failed, error) ==
    With(<<Post(env, <<>>), FindIssue(S.tracker, issueId)>>, LAMBDA a :
        IF a[1] = "ok" /\ a[2] >= 0
        THEN Did(del([S EXCEPT !.tracker[a[2]] = "archived"], issueId),
                 lookup \o <<[op |-> "issueArchive", id |-> issueId]>>,
                 done, << [op |-> "del", id |-> issueId] >>, Null)
        ELSE Did(del(S, issueId), lookup \o <<[op |-> "issueArchive", id |-> issueId]>>,
                 IF a[1] = "error" THEN error ELSE failed,
                 << [op |-> "del", id |-> issueId] >>, Null))

\* issueArchive(id) and what follows it, for the cancel command and the cancel button
archive(S, env, lookup, issueId, done, failed, error) ==
    With(<<Post(env, <<>>), FindIssue(S.tracker, issueId)>>, LAMBDA a :
        IF a[1] = "ok" /\ a[2] >= 0
        THEN Did(del([S EXCEPT !.tracker[a[2]] = "archived"], issueId),
                 lookup \o <<[op |-> "issueArchive", id |-> issueId]>>,
                 done, << [op |-> "del", id |-> issueId] >>, Null)
        ELSE Did(S, lookup \o <<[op |-> "issueArchive", id |-> issueId]>>,
                 IF a[1] = "error" THEN error ELSE failed, <<>>, Null))

handleCancelAction(S, ctx, ticketIdentifier, env) ==
    IF Falsy(ticketIdentifier)
    THEN Did(S, <<>>, "Could not identify the ticket", <<>>, Null)
    ELSE With(getIssueIdFromIdentifier(S, ticketIdentifier, env), LAMBDA t :
         IF t.id = Null THEN Did(S, t.calls, "Ticket not found", <<>>, Null)
         ELSE archive(S, env, t.calls, t.id, "Ticket Cancelled",
                      "Failed to cancel ticket", "Error cancelling ticket"))

(***************************************************************************)
(* LinearTrackerBot: the entry points of the chat transport                *)
(***************************************************************************)
\* the comparison with a threshold of 0.4
BelowFourTenths(confidence) ==
    IF confidence = Undefined THEN FALSE
    ELSE IF confidence = Null THEN TRUE
    ELSE LET whole == LeadingDigits(confidence, 0)
             tenth == IF Ch(confidence, 2) = "." THEN DigitValue(Ch(confidence, 3)) ELSE 0
         IN  whole = 0 /\ tenth < 4

\* command.confidence < 0.5 for a confidence that is the text of a number with at
\* most two decimals, null (which counts as 0) or undefined (NaN: never below)
BelowThreshold(confidence) ==
    IF confidence = Undefined THEN FALSE
    ELSE IF confidence = Null THEN TRUE
    ELSE LET whole == LeadingDigits(confidence, 0)
             tenth == IF Ch(confidence, 2) = "." THEN DigitValue(Ch(confidence, 3)) ELSE 0
         IN  whole = 0 /\ tenth < 5

isBotMentioned(text) ==
    botUsername # Undefined /\ includes(toLowerCase(text), "@" \o toLowerCase(botUsername))

removeBotMention(text) ==
    IF botUsername = Undefined THEN text ELSE trim(removeAll(text, "@" \o botUsername))

\* a switch without default: an action outside the vocabulary is not handled
dispatchVocabularyOnly(S, ctx, command, env) ==
    CASE command.action = "edit" ->
            handleEditAction(S, ctx, command.ticketIdentifier, command.editField,
                             command.newValue, command.assigneeName, env)
      [] command.action = "cancel" -> handleCancelAction(S, ctx, command.ticketIdentifier, env)
      [] command.action = "delete" -> handleDeleteAction(S, ctx, command.ticketIdentifier, env)
      [] command.action = "assign" ->
            handleAssignAction(S, ctx, command.ticketIdentifier, command.assigneeName, env)
      [] command.action = "status" ->
            handleStatusAction(S, ctx, command.ticketIdentifier, command.newStatus, env)
      [] command.action = "create" -> handleCreateAction(S, ctx, command, env)
      [] OTHER -> Did(S, <<>>, "Could not understand your request", <<>>, Null)

\* the switch of the message handler on the action of the command
dispatch(S, ctx, command, env) ==
    CASE command.action = "edit" ->
            handleEditAction(S, ctx, command.ticketIdentifier, command.editField,
                             command.newValue, command.assigneeName, env)
      [] command.action = "cancel" -> handleCancelAction(S, ctx, command.ticketIdentifier, env)
      [] command.action = "delete" -> handleDeleteAction(S, ctx, command.ticketIdentifier, env)
      [] command.action = "assign" ->
            handleAssignAction(S, ctx, command.ticketIdentifier, command.assigneeName, env)
      [] command.action = "status" ->
            handleStatusAction(S, ctx, command.ticketIdentifier, command.newStatus, env)
      [] OTHER -> handleCreateAction(S, ctx, command, env)

\* the name of the handler the switch takes
handlerOf(command) ==
    IF command.action \in {"edit", "cancel", "delete", "assign", "status"}
    THEN command.action ELSE "create"

\* JSON.stringify({from, text, timestamp})
msgDataOf(from, text, timestamp) ==
    "{\"from\":" \o JSONstringify(OrElse(from.username, OrElse(from.first_name, "Unknown")))
    \o ",\"text\":" \o JSONstringify(text)
    \o ",\"timestamp\":" \o NumberToString(timestamp) \o "}"

\* the number of messages ltrim keeps of a chat's history
HISTORY_KEEP == 20

\* lpush, then ltrim(key, 0, HISTORY_KEEP - 1)
pushHistory(h, msgData) ==
    LET pushed == <<msgData>> \o h
    IN  IF Len(pushed) <= HISTORY_KEEP THEN pushed ELSE SubSeq(pushed, 1, HISTORY_KEEP)

\* what `last` holds of the handling of an update
Report(entry, chat, from, command, handler, fetched, env, d) ==
    [S |-> d.S,
     last |-> [entry |-> entry, chat |-> chat.id, username |-> from.username,
               command |-> command, handler |-> handler, fetched |-> fetched, env |-> env,
               calls |-> d.calls, reply |-> d.reply, writes |-> d.writes,
               shown |-> d.shown]]

\* a handler that returns with a reply and nothing else
Only(reply) == Did(Held, <<>>, reply, <<>>, Null)

Nobody == Sender(Undefined, Undefined)

NoChat == Chat(0, "none", Undefined)

NoMood == [lookup |-> "none"]

NoReport == Report("none", NoChat, Nobody, NoCommand, "none", <<>>, NoMood,
                   Did(Null, <<>>, "", <<>>, Null)).last

\* the state the handling of an update leaves
Leave(r) ==
    /\ last' = r.last
    /\ store' = r.S.store
    /\ chatIssues' = r.S.chatIssues
    /\ tracker' = r.S.tracker
    /\ linearUsers' = r.S.linearUsers
    /\ usersLastFetched' = r.S.usersLastFetched

botVars == <<isLaunched, bot, botUsername, launch>>

hookVars == <<lastProcessedState, deliveries, sent>>

\* bot.on('message'): text is Undefined for a message without text; answer is what
\* the oracle's reply decodes to, first the tracker's answer to the user-list
\* query of parseCommand, env the tracker's behaviour towards the action handler
onMessage(chat, from, text, answer, first, env) ==
    IF text = Undefined \/ ~isBotMentioned(text)
    THEN Report("message", chat, from, NoCommand, "none", <<>>, env, Only(""))
    ELSE IF ~isUserAuthorized(from.username)
    THEN Report("message", chat, from, NoCommand, "none", <<>>, env,
                Only("You are not authorized to use this bot."))
    ELSE IF trim(removeBotMention(text)) = ""
    THEN Report("message", chat, from, NoCommand, "none", <<>>, env,
                Only("How to use me"))
    ELSE With(fetchLinearUsers(linearUsers, usersLastFetched, now, first), LAMBDA f :
         With(resolveCommand(answer, f.linearUsers), LAMBDA command :
         With(IF f.requests = 1 THEN <<[op |-> "users"]>> ELSE <<>>, LAMBDA fetched :
         With([Held EXCEPT !.linearUsers = f.linearUsers,
                           !.usersLastFetched = f.usersLastFetched], LAMBDA S :
         With([chat |-> chat, from |-> from, message_id |-> Len(history[chat.id]) + 1],
              LAMBDA ctx :
         IF command = NoCommand \/ BelowThreshold(command.confidence)
         THEN Report("message", chat, from, command, "none", fetched, env,
                     Did(S, <<>>, "Could not understand your request", <<>>, Null))
         ELSE With(dispatch(S, ctx, command, env), LAMBDA d :
                   Report("message", chat, from, command, handlerOf(command),
                          fetched, env, d)))))))

MessageHandler(chat, from, text, answer, first, env) ==
    /\ launch.pc = "polling"
    /\ text # Undefined => Len(history[chat.id]) < MaxHistory
    /\ history' = IF text = Undefined THEN history
                  ELSE [history EXCEPT ![chat.id] =
                           pushHistory(@, msgDataOf(from, text, now \div 1000))]
    /\ \E r \in {onMessage(chat, from, text, answer, first, env)} : Leave(r)
    /\ UNCHANGED <<probe, botVars, now, hookVars>>

\* bot.command('ticket')
TicketCommand(chat, from, text, env) ==
    /\ launch.pc = "polling"
    /\ LET args == trim(replaceFirst(text, "/ticket", ""))
           parts == split(args, "|")
           title == trim(parts[1])
           description == OrElse(trim(join(parts, 2, "|")), "")
           team == IF chat.type = "private" THEN OrElse(from.username, "PrivateChat")
                   ELSE OrElse(chat.title, "UnknownGroup")
           call == [op |-> "issueCreate", title |-> title, titleText |-> title,
                    description |-> description, descriptionText |-> description,
                    assigneeId |-> Null]
           posted == Post(env, <<title, description>>)
           n == env.number
           issue == [id |-> IssueId(n), identifier |-> IdentifierOf(n),
                     title |-> UnescapeGraphQL(title), state |-> [name |-> "Todo"]]
           ctx == [chat |-> chat, from |-> from]
           d == IF args = "" THEN Only("Usage: /ticket <title> | <description>")
                ELSE IF Falsy(from.username) \/ from.username \notin allowedUsernames
                THEN Only("You are not authorized to create issues.")
                ELSE IF posted = "error"
                THEN Did(Held, <<call>>, "Failed to create ticket issue", <<>>, Null)
                ELSE IF posted = "refused" \/ n < 0
                THEN Did(Held, <<call>>, "Failed to create Ticket", <<>>, Null)
                ELSE Did(sadd(hset([Held EXCEPT !.tracker[n] = "open"], issue.id,
                                   IssueData(ctx, team, issue, description)),
                              chat.id, issue.id),
                         <<call>>, "Issue Created Successfully!",
                         << [op |-> "hset", id |-> issue.id],
                            [op |-> "sadd", chat |-> chat.id, id |-> issue.id] >>, Null)
       IN  \E r \in {Report("ticket", chat, from, NoCommand, "none", <<>>, env, d)} : Leave(r)
    /\ UNCHANGED <<probe, botVars, now, hookVars, history>>

\* bot.action(/^cancel_(.+)$/)
CancelButton(chat, from, issueId, env) ==
    /\ launch.pc = "polling"
    /\ LET d == IF ~isUserAuthorized(from.username) THEN Only("You are not authorized")
                ELSE archive(Held, env, <<>>, issueId, "Ticket cancelled!",
                             "Failed to cancel ticket", "Error cancelling ticket")
       IN  \E r \in {Report("cancel_", chat, from, NoCommand, "none", <<>>, env, d)} : Leave(r)
    /\ UNCHANGED <<probe, botVars, now, hookVars, history>>

\* bot.action(/^setstatus_(.+)_([A-Z]+-\d+)$/)
SetStatusButton(chat, from, newStatus, issueIdentifier, env) ==
    /\ launch.pc = "polling"
    /\ LET t == getIssueIdFromIdentifier(Held, issueIdentifier, env)
           s == getStateIdByName(newStatus, env)
           d == IF ~isUserAuthorized(from.username) THEN Only("You are not authorized")
                ELSE IF t.id = Null THEN Did(Held, t.calls, "Ticket not found", <<>>, Null)
                ELSE IF s.id = Null
                THEN Did(Held, t.calls \o s.calls, "Status not found", <<>>, Null)
                ELSE issueUpdate(Held, env, t.calls \o s.calls, t.id, "stateId", s.id, s.id,
                                 "Ticket status updated", "Failed to update status",
                                 "Error updating status")
       IN  \E r \in {Report("setstatus_", chat, from, NoCommand, "none", <<>>, env, d)} : Leave(r)
    /\ UNCHANGED <<probe, botVars, now, hookVars, history>>

\* bot.action(/^edit_(.+)$/): the menu of fields
EditButton(chat, from, issueIdentifier) ==
    /\ launch.pc = "polling"
    /\ LET d == IF ~isUserAuthorized(from.username) THEN Only("You are not authorized")
                ELSE Only("What would you like to edit?")
       IN  \E r \in {Report("edit_", chat, from, NoCommand, "none", <<>>, NoMood, d)} : Leave(r)
    /\ UNCHANGED <<probe, botVars, now, hookVars, history>>

\* bot.action(/^editfield_title_(.+)$/) and the same for desc, assignee and
\* status: title and desc leave a pending edit of the chat under a key of its own
EditFieldButton(chat, from, field, issueIdentifier) ==
    /\ launch.pc = "polling"
    /\ LET d == IF ~isUserAuthorized(from.username) THEN Only("You are not authorized")
                ELSE IF field \in {"title", "desc"}
                THEN Did(Held, <<>>, "Edit " \o field, << [op |-> "setex", chat |-> chat.id,
                         field |-> IF field = "desc" THEN "description" ELSE field,
                         identifier |-> issueIdentifier] >>, Null)
                ELSE IF field = "assignee" THEN Only("Change Assignee")
                ELSE Only("Change Status")
       IN  \E r \in {Report("editfield_", chat, from, NoCommand, "none", <<>>, NoMood, d)} :
               Leave(r)
    /\ UNCHANGED <<probe, botVars, now, hookVars, history>>

\* bot.action(/^done_(.+)$/)
DoneButton(chat, from, issueIdentifier, answered) ==
    /\ launch.pc = "polling"
    /\ LET d == IF ~isUserAuthorized(from.username) THEN Only("You are not authorized")
                ELSE IF answered THEN Only("Done") ELSE Only("Could not process")
       IN  \E r \in {Report("done_", chat, from, NoCommand, "none", <<>>, NoMood, d)} : Leave(r)
    /\ UNCHANGED <<probe, botVars, now, hookVars, history>>

(***************************************************************************)
(* LinearTrackerBot.launchBot                                              *)
(***************************************************************************)
BotSet == "Telegraf"

maxRetries == 5

\* launchErr is caught and the launch tried again
retryOnAnyFailure(isConflict, attempt) == attempt < maxRetries

shouldRetry(isConflict, attempt) == isConflict /\ attempt < maxRetries

\* launchBot before its call: attempt is the number of the attempt of
\* bot.launch() being made or, once stopped, of the last one made; logged tells
\* whether 'Failed to launch Telegram bot' was written to the console
NotLaunched == [pc |-> "idle", attempt |-> 0, logged |-> FALSE]

\* launchBot up to its first request: tokenSet tells whether TELEGRAM_BOT_TOKEN is set
LaunchBot(tokenSet) ==
    /\ launch.pc = "idle"
    /\ ~isLaunched
    /\ isLaunched' = TRUE
    /\ bot' = IF tokenSet THEN BotSet ELSE bot
    /\ launch' = [launch EXCEPT !.pc = IF tokenSet THEN "getMe" ELSE "stopped"]
    /\ UNCHANGED <<probe, botUsername, now, linearUsers, usersLastFetched, store, chatIssues,
                   tracker, hookVars, history, last>>

\* the answer to getMe arrives
GetMe(ok) ==
    /\ launch.pc = "getMe"
    /\ botUsername' = IF ok THEN BotName ELSE botUsername
    /\ launch' = IF ok THEN [launch EXCEPT !.pc = "launching", !.attempt = 1]
                 ELSE [launch EXCEPT !.pc = "stopped", !.logged = TRUE]
    /\ UNCHANGED <<probe, isLaunched, bot, now, linearUsers, usersLastFetched, store,
                   chatIssues, tracker, hookVars, history, last>>

\* one attempt of bot.launch(): it starts polling, fails on a conflict (409) or
\* fails otherwise; a failure that is not tried again is thrown to the outer
\* catch, which writes it to the console
Launch(outcome) ==
    /\ launch.pc = "launching"
    /\ launch' = CASE outcome = "ok" -> [launch EXCEPT !.pc = "polling", !.attempt = 0]
                   [] shouldRetry(outcome = "conflict", launch.attempt) ->
                          [launch EXCEPT !.attempt = @ + 1]
                   [] OTHER -> [launch EXCEPT !.pc = "stopped", !.logged = TRUE]
    /\ UNCHANGED <<probe, isLaunched, bot, botUsername, now, linearUsers, usersLastFetched,
                   store, chatIssues, tracker, hookVars, history, last>>

(***************************************************************************)
(* The comments of a record, as the store keeps them                       *)
(***************************************************************************)
\* JSON.stringify of an array of {text, author, createdAt}
RECURSIVE stringifyFrom(_, _)
stringifyFrom(comments, i) ==
    IF i > Len(comments) THEN ""
    ELSE (IF i > 1 THEN "," ELSE "")
         \o "{\"text\":" \o JSONstringify(comments[i].text)
         \o ",\"author\":" \o JSONstringify(comments[i].author)
         \o ",\"createdAt\":" \o JSONstringify(comments[i].createdAt) \o "}"
         \o stringifyFrom(comments, i + 1)

stringifyComments(comments) == "[" \o stringifyFrom(comments, 1) \o "]"

\* what follows an object of the array: its end, or the next object
RECURSIVE ReadElements(_, _, _)
AfterElement(s, o, seq) ==
    IF ~o.ok THEN Fail
    ELSE LET after == SkipBlanks(s, o.next)
         IN  IF after > Len(s) THEN Fail
             ELSE IF Ch(s, after) = "]"
             THEN [ok |-> TRUE, v |-> Append(seq, o.v), next |-> after + 1]
             ELSE IF Ch(s, after) = ","
             THEN ReadElements(s, after + 1, Append(seq, o.v))
             ELSE Fail

\* the objects of a JSON array from position i on (after "[" or ",")
ReadElements(s, i, seq) ==
    LET open == SkipBlanks(s, i)
    IN  IF open > Len(s) \/ Ch(s, open) # "{" THEN Fail
        ELSE With(ReadMembers(s, open + 1, EmptyObject), LAMBDA o : AfterElement(s, o, seq))

\* JSON.parse of a text that holds an array of flat objects
JSONparseArray(text) ==
    LET start == SkipBlanks(text, 1)
        first == SkipBlanks(text, start + 1)
    IN  IF start > Len(text) \/ Ch(text, start) # "[" THEN Fail
        ELSE With(IF first <= Len(text) /\ Ch(text, first) = "]"
                  THEN [ok |-> TRUE, v |-> <<>>, next |-> first + 1]
                  ELSE ReadElements(text, start + 1, <<>>),
                  LAMBDA r : IF r.ok /\ SkipBlanks(text, r.next) > Len(text)
                             THEN [ok |-> TRUE, v |-> r.v] ELSE Fail)

\* an element that has the three fields of a comment, each a string
IsComment(c) ==
    \A k \in {"text", "author", "createdAt"} : k \in DOMAIN c /\ c[k].t = "str"

AsComment(c) ==
    [text |-> c["text"].v, author |-> c["author"].v, createdAt |-> c["createdAt"].v]

\* parseComments: the array the text holds, or none when it cannot be read
parseComments(raw) ==
    IF Falsy(raw) THEN <<>>
    ELSE With(JSONparseArray(raw), LAMBDA parsed :
             IF ~parsed.ok THEN <<>>
             ELSE With(SelectSeq(parsed.v, IsComment), LAMBDA kept :
                      [i \in 1..Len(kept) |-> AsComment(kept[i])]))

(***************************************************************************)
(* LinearWebhookController.handle and LinearTrackerBot.updateIssueStatuss  *)
(***************************************************************************)
\* the body of a delivery; a field the body does not have is Undefined
UpdatePayload(id, identifier, stateName) ==
    [action |-> "update", type |-> "Issue", id |-> id, identifier |-> identifier,
     stateName |-> stateName, body |-> Undefined, userName |-> Undefined,
     createdAt |-> Undefined]

CommentPayload(issueId, body, userName, createdAt) ==
    [action |-> "create", type |-> "Comment", id |-> issueId, identifier |-> Undefined,
     stateName |-> Undefined, body |-> body, userName |-> userName, createdAt |-> createdAt]

NoComment == [text |-> Undefined]

\* a delivery and its deferred processing: ack is what handle has returned for
\* it; pc is "queued" until the callback of setImmediate runs, then "hgetall",
\* "hset" and "send" while updateIssueStatuss waits for that call, and "done";
\* wrote tells whether it wrote the store
Delivery(payload) ==
    [payload |-> payload, ack |-> "ok", pc |-> "queued", outcome |-> "", status |-> "",
     comment |-> NoComment, data |-> NoRecord, issue |-> NoRecord, wrote |-> FALSE,
     asked |-> 0]

\* a handler that waits for the processing before it answers
HandleAwaiting(payload) ==
    /\ Len(deliveries) < MaxDeliveries
    /\ deliveries' = Append(deliveries, [Delivery(payload) EXCEPT !.ack = ""])
    /\ UNCHANGED <<probe, botVars, now, linearUsers, usersLastFetched, store, chatIssues,
                   tracker, lastProcessedState, sent, history, last>>

\* handle(data): setImmediate registers the processing, 'ok' is returned
Handle(payload) ==
    /\ Len(deliveries) < MaxDeliveries
    /\ deliveries' = Append(deliveries, Delivery(payload))
    /\ UNCHANGED <<probe, botVars, now, linearUsers, usersLastFetched, store, chatIssues,
                   tracker, lastProcessedState, sent, history, last>>

\* the callbacks of setImmediate run in the order of their registration
NextQueued ==
    LET queued == {i \in 1..Len(deliveries) : deliveries[i].pc = "queued"}
    IN  IF queued = {} THEN 0 ELSE CHOOSE i \in queued : \A j \in queued : i <= j

\* the map never tells a repeat
neverRepeated(processed, identifier, stateName) == FALSE

\* this.lastProcessedState.get(identifier) === stateName
isRepeated(processed, identifier, stateName) ==
    identifier \in DOMAIN processed /\ processed[identifier] = stateName

\* the number the next call of a delivery takes: calls are numbered as they are made
NextCall ==
    1 + CHOOSE m \in {0} \cup {deliveries[j].asked : j \in 1..Len(deliveries)} :
            \A j \in 1..Len(deliveries) : deliveries[j].asked <= m

\* the calls of the store, which one client sends over one connection, and the
\* calls of the chat transport
StoreCalls == {"hgetall", "hset"}

ChatCalls == {"send"}

\* calls answered in any order
anyTurn(i, calls) == TRUE

\* the call delivery i waits for is the oldest of the calls of its kind that
\* wait: the client of the store resolves its commands in the order they were
\* made, and the messages go to the chat in the order of their calls
inTurn(i, calls) ==
    \A j \in 1..Len(deliveries) :
        (j # i /\ deliveries[j].pc \in calls) => deliveries[j].asked > deliveries[i].asked

\* the steps of a delivery
Ends(i, outcome) == [deliveries EXCEPT ![i].pc = "done", ![i].outcome = outcome]

Starts(i, status, comment) ==
    [deliveries EXCEPT ![i].pc = "hgetall", ![i].status = status, ![i].comment = comment,
                       ![i].asked = NextCall]

\* no update is taken for incomplete
updateNeverIncomplete(p) == FALSE

\* !id || !identifier || !stateName
updateIsIncomplete(p) == Falsy(p.id) \/ Falsy(p.identifier) \/ Falsy(p.stateName)

\* body && issue?.id && user?.name
commentIsComplete(p) == ~Falsy(p.body) /\ ~Falsy(p.id) /\ ~Falsy(p.userName)

\* the callback, up to the first call of the store it waits for
RunImmediate ==
    /\ NextQueued # 0
    /\ \E i \in {NextQueued} : \E p \in {deliveries[i].payload} :
           IF p.action = "update"
           THEN IF updateIsIncomplete(p)
                THEN /\ deliveries' = Ends(i, "dropped")
                     /\ UNCHANGED lastProcessedState
                ELSE IF isRepeated(lastProcessedState, p.identifier, p.stateName)
                THEN /\ deliveries' = Ends(i, "discarded")
                     /\ UNCHANGED lastProcessedState
                ELSE /\ lastProcessedState' =
                            [lastProcessedState EXCEPT ![p.identifier] = p.stateName]
                     /\ deliveries' = Starts(i, p.stateName, NoComment)
           ELSE IF p.action = "create" /\ p.type = "Comment"
           THEN /\ deliveries' =
                       IF commentIsComplete(p)
                       THEN Starts(i, "", [text |-> p.body, author |-> p.userName,
                                           date |-> p.createdAt])
                       ELSE Ends(i, "dropped")
                /\ UNCHANGED lastProcessedState
           ELSE /\ deliveries' = Ends(i, "ignored")
                /\ UNCHANGED lastProcessedState
    /\ UNCHANGED <<probe, botVars, now, linearUsers, usersLastFetched, store, chatIssues,
                   tracker, sent, history, last>>

\* redis.hgetall('issue:' + issueId): NoRecord for a key the store does not hold
hgetall(issueId) == IF issueId \in DOMAIN store THEN store[issueId] ELSE NoRecord

\* no key is ever taken for absent
neverEmpty(data) == FALSE

\* !Object.keys(data).length
isEmpty(data) == data = NoRecord

\* a field of what hgetall gave: undefined when it is not there
Get(data, k) == IF k \in DOMAIN data THEN data[k] ELSE Undefined

\* updateIssueStatuss: hgetall answers
Hgetall(i) ==
    /\ deliveries[i].pc = "hgetall"
    /\ inTurn(i, StoreCalls)
    /\ \E data \in {hgetall(deliveries[i].payload.id)} :
           deliveries' =
               IF isEmpty(data)
               THEN Ends(i, "absent")
               ELSE [deliveries EXCEPT ![i].pc = "hset", ![i].data = data,
                                       ![i].asked = NextCall]
    /\ UNCHANGED <<probe, botVars, now, linearUsers, usersLastFetched, store, chatIssues,
                   tracker, lastProcessedState, sent, history, last>>

\* the comment of the delivery put before the comments of the record
commentsAfter(raw, comment) ==
    With(parseComments(raw), LAMBDA comments :
        IF comment = NoComment THEN comments
        ELSE <<[text |-> comment.text, author |-> comment.author,
                createdAt |-> OrElse(comment.date, toISOString(now))]>> \o comments)

\* the comments of the record, with the comment of the delivery if it has one
commentsWith(raw, comment) ==
    With(parseComments(raw), LAMBDA comments :
        IF comment = NoComment THEN comments
        ELSE Append(comments, [text |-> comment.text, author |-> comment.author,
                               createdAt |-> OrElse(comment.date, toISOString(now))]))

\* a record made of the delivery alone
redisDataAfresh(data, status, comment) ==
    [chatId |-> NumberToString(parseInt(OrElse(Get(data, "chatId"), "0"))),
     username |-> "", firstName |-> "", lastName |-> "",
     team |-> OrElse(Get(data, "team"), ""),
     issueId |-> OrElse(Get(data, "issueId"), ""),
     identifier |-> OrElse(Get(data, "identifier"), ""),
     title |-> "", description |-> "",
     status |-> status,
     createdAt |-> toISOString(now),
     updatedAt |-> toISOString(now),
     comments |-> stringifyComments(commentsWith(Undefined, comment))]

\* the record updateIssueStatuss writes, from what hgetall gave
redisData(data, status, comment) ==
    [chatId |-> NumberToString(parseInt(OrElse(Get(data, "chatId"), "0"))),
     username |-> OrElse(Get(data, "username"), ""),
     firstName |-> OrElse(Get(data, "firstName"), ""),
     lastName |-> OrElse(Get(data, "lastName"), ""),
     team |-> OrElse(Get(data, "team"), ""),
     issueId |-> OrElse(Get(data, "issueId"), ""),
     identifier |-> OrElse(Get(data, "identifier"), ""),
     title |-> OrElse(Get(data, "title"), ""),
     description |-> OrElse(Get(data, "description"), ""),
     status |-> status,
     createdAt |-> OrElse(Get(data, "createdAt"), ""),
     updatedAt |-> toISOString(now),
     comments |-> stringifyComments(commentsWith(Get(data, "comments"), comment))]

\* updateIssueStatuss: the record is built from what hgetall gave and written
Hset(i) ==
    /\ deliveries[i].pc = "hset"
    /\ inTurn(i, StoreCalls)
    /\ \E d \in {deliveries[i]} : \E issue \in {redisData(d.data, d.status, d.comment)} :
           /\ store' = [store EXCEPT ![d.payload.id] = issue]
           /\ deliveries' = [deliveries EXCEPT ![i].pc = "send", ![i].issue = issue,
                                               ![i].wrote = TRUE, ![i].asked = NextCall]
    /\ UNCHANGED <<probe, botVars, now, linearUsers, usersLastFetched, chatIssues, tracker,
                   lastProcessedState, sent, history, last>>

\* updateIssueStatuss: the notification, which is given up when there is no bot
Send(i) ==
    /\ deliveries[i].pc = "send"
    /\ inTurn(i, ChatCalls)
    /\ \E d \in {deliveries[i]} :
           IF bot # BotSet
           THEN /\ deliveries' = Ends(i, "unsent")
                /\ UNCHANGED sent
           ELSE /\ deliveries' = Ends(i, "notified")
                /\ sent' = Append(sent, [delivery |-> i, chat |-> parseInt(d.issue.chatId),
                                         identifier |-> d.issue.identifier,
                                         status |-> d.status])
    /\ UNCHANGED <<probe, botVars, now, linearUsers, usersLastFetched, store, chatIssues,
                   tracker, lastProcessedState, history, last>>

(***************************************************************************)
(* The program as a whole                                                  *)
(***************************************************************************)
StartTime == 1000000

NoProbe == [op |-> "none"]

InitProgram ==
    /\ isLaunched = FALSE
    /\ bot = Undefined
    /\ botUsername = Undefined
    /\ launch = NotLaunched
    /\ now = StartTime
    /\ linearUsers = <<>>
    /\ usersLastFetched = 0
    /\ store = [id \in IssueIds |-> NoRecord]
    /\ chatIssues = [c \in ChatIds |-> {}]
    /\ tracker = [n \in IssueNumbers |-> IF n = 0 THEN "open" ELSE "none"]
    /\ lastProcessedState = [x \in Identifiers |-> Undefined]
    /\ deliveries = <<>>
    /\ sent = <<>>
    /\ history = [c \in ChatIds |-> <<>>]
    /\ last = NoReport

program == <<isLaunched, bot, botUsername, launch, now, linearUsers, usersLastFetched,
             store, chatIssues, tracker, lastProcessedState, deliveries, sent, history, last>>

Init == probe = NoProbe /\ InitProgram

\* the oracle's answer, decoded
Cmd(action, ticketIdentifier, assigneeName, newStatus, title, description, editField,
    newValue, confidence) ==
    [action |-> action, ticketIdentifier |-> ticketIdentifier,
     assigneeName |-> assigneeName, newStatus |-> newStatus, title |-> title,
     description |-> description, editField |-> editField, newValue |-> newValue,
     confidence |-> confidence]

Create(title, description, assigneeName) ==
    Cmd("create", Null, assigneeName, Null, title, description, Null, Null, "0.9")

Assign(ticketIdentifier, assigneeName) ==
    Cmd("assign", ticketIdentifier, assigneeName, Null, Null, Null, Null, Null, "0.9")

Status(ticketIdentifier, newStatus) ==
    Cmd("status", ticketIdentifier, Null, newStatus, Null, Null, Null, Null, "0.8")

Edit(ticketIdentifier, editField, newValue, assigneeName) ==
    Cmd("edit", ticketIdentifier, assigneeName, Null, Null, Null, editField, newValue, "1")

Remove(action, ticketIdentifier) ==
    Cmd(action, ticketIdentifier, Null, Null, Null, Null, Null, Null, "0.95")

\* free texts with the characters a GraphQL string literal has to escape
Tricky == "say \"hi\"\\"

Lines == "d\r\ne\tf"

\* a text that ends its literal after one quote is escaped and goes on as the
\* text of the mutation
Crafted == "a\\\", priority: 1 }) {\n#"

Known == IdentifierOf(0)

Unknown == "MOB-404"

CreateAnswers ==
    { Create(Tricky, Lines, "flo"), Create("Fix a", Null, Null), Create(Tricky, Null, "zed"),
      Create(Null, Lines, "flo"), Create("", Null, Null) }

AssignAnswers ==
    { Assign(Null, "flo"), Assign(Known, Null), Assign(Known, "flo"), Assign(Known, "zed"),
      Assign(Unknown, "flo") }

StatusAnswers ==
    { Status(Null, "Done"), Status(Known, Null), Status(Known, "In Progress"),
      Status(Known, " in progress "), Status(Known, "Doing"), Status(Known, "Progress"),
      Status(Unknown, "Done") }

EditAnswers ==
    { Edit(Null, "title", "x", Null), Edit(Known, Null, Null, Null),
      Edit(Known, "menu", Null, Null), Edit(Known, "title", Null, Null),
      Edit(Known, "title", Tricky, Null), Edit(Known, "title", "Fix b", Null),
      Edit(Known, "description", Lines, Null), Edit(Known, "description", Null, Null),
      Edit(Known, "assignee", "flo", "flo"), Edit(Known, "assignee", "zed", "zed"),
      Edit(Known, "assignee", "flo", Null), Edit(Known, "status", "done", Null),
      Edit(Known, "status", "Doing", Null), Edit(Known, "priority", "1", Null),
      Edit(Unknown, "title", "Fix b", Null) }

RemoveAnswers ==
    { Remove(a, t) : a \in {"cancel", "delete"},
                     t \in {Null, Unknown} \cup {IdentifierOf(n) : n \in IssueNumbers} }

OtherAnswers ==
    { NoCommand,
      Cmd("create", Null, Null, Null, "Fix a", Null, Null, Null, "0.4"),
      Cmd("assign", Known, "flo", Null, Null, Null, Null, Null, Null),
      Cmd("close", Known, Null, Null, "Fix a", Null, Null, Null, "0.9") }

\* the tracker's behaviours towards the handling of a command: a request the
\* handling cannot make, or cannot reach, is given one behaviour only
MoodsFor(command, trk) ==
    LET h == IF command = NoCommand THEN "none" ELSE handlerOf(command)
        field == IF h = "edit" THEN command.editField ELSE Null
        ticketed ==
            /\ h \in {"edit", "cancel", "delete", "assign", "status"}
            /\ ~Falsy(command.ticketIdentifier)
            /\ h = "assign" => ~Falsy(command.assigneeName)
            /\ h = "status" => ~Falsy(command.newStatus)
            /\ h = "edit" => ~Falsy(field) /\ field # "menu"
        readsStates == ticketed /\ (h = "status" \/ field = "status")
        readsUsers ==
            \/ h = "create" /\ ~Falsy(command.title) /\ ~Falsy(command.assigneeName)
            \/ ticketed /\ h = "assign"
            \/ ticketed /\ field = "assignee" /\ ~Falsy(command.assigneeName)
        mutates ==
            \/ h = "create" /\ ~Falsy(command.title)
            \/ ticketed /\ h # "edit"
            \/ ticketed /\ field \in {"description", "assignee", "status"}
            \/ ticketed /\ field = "title" /\ ~Falsy(command.newValue)
        listed == [kind |-> "list", nodes |-> Team]
    IN  {env \in TrackerMoods(trk) :
            /\ ticketed \/ env.lookup = "ok"
            /\ (readsStates /\ env.lookup = "ok") \/ env.states = "ok"
            /\ (readsUsers /\ env.lookup = "ok") \/ env.users = listed
            /\ (mutates /\ env.lookup = "ok" /\ env.states = "ok") \/ env.mutation = "ok"}

TicketTexts == {"/ticket", "/ticket Fix a | d | e", "/ticket say \"hi\"", "/ticket C:\\ | x"}

LaunchOutcomes == {"ok", "conflict", "error"}

\* the launch of the bot, step by step
Launching ==
    \/ \E tokenSet \in BOOLEAN : LaunchBot(tokenSet)
    \/ \E ok \in BOOLEAN : GetMe(ok)
    \/ \E outcome \in LaunchOutcomes : Launch(outcome)

\* a message that mentions the bot, from an authorized sender, which the oracle
\* answers with one of answers
Chatting(answers) ==
    \E chat \in Chats, answer \in answers, first \in UsersAnswers :
        \E env \in MoodsFor(answer, tracker) :
            /\ first.kind = "list" => env.users = first
            /\ MessageHandler(chat, Sandy, "@linearbot go", answer, first, env)

Ticketing ==
    \E chat \in Chats, text \in TicketTexts :
        \E env \in MoodsFor(Create("x", Null, Null), tracker) :
            TicketCommand(chat, Sandy, text, env)

(***************************************************************************)
(* Specification of the creation of tickets                                *)
(***************************************************************************)
NextCreate ==
    \/ Launching
    \/ Chatting(CreateAnswers \cup OtherAnswers)

SpecCreate == Init /\ [][NextCreate]_vars

(***************************************************************************)
(* Specification of the assignment and of the change of status of a ticket *)
(***************************************************************************)
NextAssign ==
    \/ Launching
    \/ Chatting(AssignAnswers \cup StatusAnswers)

SpecAssign == Init /\ [][NextAssign]_vars

(***************************************************************************)
(* Specification of the edition of a ticket                                *)
(***************************************************************************)
NextEdit ==
    \/ Launching
    \/ Chatting(EditAnswers)

SpecEdit == Init /\ [][NextEdit]_vars

(***************************************************************************)
(* Specification of the edit of one field: the menu, each field with a     *)
(* value, a title without value, a crafted title, an unknown ticket        *)
(***************************************************************************)
EditFieldAnswers ==
    { Edit(Known, Null, Null, Null), Edit(Known, "menu", "x", Null),
      Edit(Known, "title", Null, Null), Edit(Known, "title", "Fix b", Null),
      Edit(Known, "title", Crafted, Null), Edit(Known, "description", "d", Null),
      Edit(Known, "assignee", "flo", "flo"), Edit(Known, "status", "done", Null),
      Edit(Unknown, "title", "Fix b", Null) }

NextEditField ==
    \/ Launching
    \/ Chatting(EditFieldAnswers)

SpecEditField == Init /\ [][NextEditField]_vars

(***************************************************************************)
(* Specification of the webhook: deliveries about the issue a chat created, *)
(* about an issue without a record, malformed ones and comments            *)
(***************************************************************************)
OkMood(trk) ==
    [lookup |-> "ok", states |-> "ok", mutation |-> "ok",
     users |-> [kind |-> "list", nodes |-> Team], number |-> NextNumber(trk)]

HookPayloads ==
    { UpdatePayload(IssueId(n), IdentifierOf(n), "Done") : n \in IssueNumbers }
    \cup { UpdatePayload(IssueId(1), IdentifierOf(1), "In Progress"),
           UpdatePayload(IssueId(1), IdentifierOf(1), Undefined),
           UpdatePayload(IssueId(1), Undefined, "Done"),
           UpdatePayload(Undefined, IdentifierOf(1), "Done"),
           CommentPayload(IssueId(1), "ok", "Flo", Undefined),
           CommentPayload(IssueId(1), "", "Flo", Undefined),
           CommentPayload(IssueId(1), "ok", Undefined, Undefined),
           CommentPayload(Undefined, "ok", "Flo", Undefined) }

\* a chat has the bot create an issue
Creating ==
    \E chat \in Chats :
        MessageHandler(chat, Sandy, "@linearbot go", Create("Fix a", Null, Null),
                       [kind |-> "list", nodes |-> Team], OkMood(tracker))

Delivering ==
    \/ \E payload \in HookPayloads : Handle(payload)
    \/ RunImmediate
    \/ \E i \in 1..Len(deliveries) : Hgetall(i)
    \/ \E i \in 1..Len(deliveries) : Hset(i)
    \/ \E i \in 1..Len(deliveries) : Send(i)

NextHook ==
    \/ Launching
    \/ Creating
    \/ Delivering

SpecHook == Init /\ [][NextHook]_vars

(***************************************************************************)
(* Specification of the edit of a ticket that has a record: a chat has an  *)
(* issue created, then chats send edits of its title and description       *)
(***************************************************************************)
\* commands with every field filled, of each action of the vocabulary and of
\* actions outside it, with a confidence at the threshold, above it and below it
FullCommand(action, title, confidence) ==
    Cmd(action, Known, "flo", "Done", title, Null, "title", "Fix b", confidence)

DispatchAnswers ==
    { FullCommand(action, "Fix a", "0.5") :
        action \in {"create", "edit", "cancel", "delete", "assign", "status", "close"} }
    \cup { FullCommand("Create", "Fix a", "0.9"), FullCommand("close", Null, "0.9"),
           FullCommand("cancel", "Fix a", "0.4") }

NextDispatch ==
    \/ Launching
    \/ Chatting(DispatchAnswers)

SpecDispatch == Init /\ [][NextDispatch]_vars

EditRecordAnswers ==
    { Edit(IdentifierOf(n), field, value, Null) :
          n \in IssueNumbers, field \in {"title", "description"}, value \in {"Fix b", Null} }

NextEditRecord ==
    \/ Launching
    \/ Creating
    \/ Chatting(EditRecordAnswers)

SpecEditRecord == Init /\ [][NextEditRecord]_vars

(***************************************************************************)
(* Specification of the merge: the program starts with a store that holds  *)
(* the record of an issue a group chat had created, with the comments that *)
(* earlier deliveries have put in it, and receives updates and comments    *)
(* of that issue                                                           *)
(***************************************************************************)
MaxKept == 2

\* the k-th comment delivered before the start
PastComment(k) ==
    IF k % 2 = 1
    THEN [text |-> "say \"hi\"\n", author |-> "Flo", date |-> "2024-05-01T10:00:00.000Z"]
    ELSE [text |-> "ok", author |-> "Al", date |-> Undefined]

\* the record of issue 1 as handleCreateAction wrote it
CreatedRecord ==
    IssueData([chat |-> Chat(-42, "group", "Dev"), from |-> Sandy, message_id |-> 1], "Dev",
              [id |-> IssueId(1), identifier |-> IdentifierOf(1), title |-> "Fix \"a\"",
               state |-> [name |-> "Todo"]], "d")

\* the record after the first n comments were merged into it
RECURSIVE KeptRecord(_)
KeptRecord(n) ==
    IF n = 0 THEN CreatedRecord
    ELSE With(KeptRecord(n - 1), LAMBDA kept : redisData(kept, "", PastComment(n)))

InitMerge ==
    /\ probe = NoProbe
    /\ isLaunched = FALSE
    /\ bot = Undefined
    /\ botUsername = Undefined
    /\ launch = NotLaunched
    /\ now = StartTime
    /\ linearUsers = <<>>
    /\ usersLastFetched = 0
    /\ \E n \in 0..MaxKept :
           store = [id \in IssueIds |-> IF id = IssueId(1) THEN KeptRecord(n) ELSE NoRecord]
    /\ chatIssues = [c \in ChatIds |-> IF c = -42 THEN {IssueId(1)} ELSE {}]
    /\ tracker = [n \in IssueNumbers |-> "open"]
    /\ lastProcessedState = [x \in Identifiers |-> Undefined]
    /\ deliveries = <<>>
    /\ sent = <<>>
    /\ history = [c \in ChatIds |-> <<>>]
    /\ last = NoReport

MergePayloads ==
    { UpdatePayload(IssueId(1), IdentifierOf(1), "Done"),
      UpdatePayload(IssueId(1), IdentifierOf(1), "In Progress"),
      CommentPayload(IssueId(1), "it's \\ \"done\"", "Flo", Undefined),
      CommentPayload(IssueId(1), "a\tb", "Al", "2024-06-01T08:00:00.000Z") }

Merging ==
    \/ \E payload \in MergePayloads : Handle(payload)
    \/ RunImmediate
    \/ \E i \in 1..Len(deliveries) : Hgetall(i)
    \/ \E i \in 1..Len(deliveries) : Hset(i)
    \/ \E i \in 1..Len(deliveries) : Send(i)

NextMerge ==
    \/ Launching
    \/ Merging

SpecMerge == InitMerge /\ [][NextMerge]_vars

(***************************************************************************)
(* Specification of the launch: launchBot runs, with the transport         *)
(* answering each attempt with success, a conflict or another failure, and *)
(* /ticket commands and messages come once the bot polls.  Every request  *)
(* of launchBot is answered in the end.                                    *)
(***************************************************************************)
NextLaunch ==
    \/ Launching
    \/ Ticketing
    \/ Creating

SpecLaunch == Init /\ [][NextLaunch]_vars /\ WF_vars(Launching)

(***************************************************************************)
(* Specification of cancelling: a chat has an issue created, chats send    *)
(* cancel commands and users press the cancel button of an issue           *)
(***************************************************************************)
CancelAnswers ==
    { Remove("cancel", t) : t \in {Null, Unknown} \cup {IdentifierOf(n) : n \in IssueNumbers} }

\* the tracker's behaviours towards the press of a button
ButtonMoods(trk) ==
    {env \in TrackerMoods(trk) :
        env.lookup = "ok" /\ env.states = "ok" /\ env.users = [kind |-> "list", nodes |-> Team]}

\* a user presses the cancel button of a message about an issue
Pressing ==
    \E chat \in Chats, from \in Senders, issueId \in IssueIds :
        \E env \in ButtonMoods(tracker) : CancelButton(chat, from, issueId, env)

NextCancel ==
    \/ Launching
    \/ Creating
    \/ Chatting(CancelAnswers)
    \/ Pressing

SpecCancel == Init /\ [][NextCancel]_vars

(***************************************************************************)
(* Specification of deleting: a chat has an issue created and chats send   *)
(* delete commands                                                         *)
(***************************************************************************)
DeleteAnswers ==
    { Remove("delete", t) : t \in {Null, Unknown} \cup {IdentifierOf(n) : n \in IssueNumbers} }

NextDelete ==
    \/ Launching
    \/ Creating
    \/ Chatting(DeleteAnswers)

SpecDelete == Init /\ [][NextDelete]_vars

(***************************************************************************)
(* Specification of the understanding of a message: the message handler    *)
(* is given what the call of the oracle brought                            *)
(***************************************************************************)
\* the text of a command as the oracle writes it
OracleText(action, ticketIdentifier, confidence) ==
    "{\"action\":\"" \o action \o "\",\"ticketIdentifier\":" \o ticketIdentifier
        \o ",\"title\":\"Fix a\"" \o confidence \o "}"

\* a call of the oracle that fails or brings no content, and contents that
\* JSON.parse throws on
Undecodable ==
    { Null, "", "Sorry, I cannot do that", "{\"action\":\"create\",\"title\":\"Fix a\"",
      Fence \o "json\n{\"action\":\"create\" \"title\":\"Fix a\"}\n" \o Fence }

\* commands with a confidence below 0.5
Unsure ==
    { OracleText(a[1], a[2], ",\"confidence\":" \o c) :
        a \in {<<"create", "null">>, <<"delete", "\"MOB-0\"">>}, c \in {"0", "0.4", "0.49"} }

Sure ==
    { OracleText(a[1], a[2], c) :
        a \in {<<"create", "null">>, <<"delete", "\"MOB-0\"">>, <<"delete", "\"null\"">>},
        c \in {",\"confidence\":0.5", ",\"confidence\":0.9", ",\"confidence\":1", ""} }

OracleContents == Undecodable \cup Unsure \cup Sure

\* a message that mentions the bot, from an authorized sender, with what the
\* call of the oracle for it brought
Asked(chat, content) ==
    MessageHandler(chat, Sandy, "@linearbot go", decodeCommand(content),
                   [kind |-> "list", nodes |-> Team], OkMood(tracker))

Asking == \E chat \in Chats, content \in OracleContents : Asked(chat, content)

NextAsk ==
    \/ Launching
    \/ Asking

SpecAsk == Init /\ [][NextAsk]_vars

(***************************************************************************)
(* Specification of the entry points of the chat transport, each taken by  *)
(* authorized senders, by a sender who is not allowed and by one without   *)
(* username, on the issue a chat created                                   *)
(***************************************************************************)
Listed == [kind |-> "list", nodes |-> Team]

Mentioning ==
    \E chat \in Chats, from \in Senders,
       answer \in {Create("Fix a", Null, Null), Remove("delete", IdentifierOf(1))} :
        MessageHandler(chat, from, "@linearbot go", answer, Listed, OkMood(tracker))

TicketFrom ==
    \E chat \in Chats, from \in Senders :
        TicketCommand(chat, from, "/ticket Fix a | d | e", OkMood(tracker))

PressingEdit ==
    \E chat \in Chats, from \in Senders :
        \/ EditButton(chat, from, IdentifierOf(1))
        \/ \E field \in {"title", "desc", "assignee", "status"} :
               EditFieldButton(chat, from, field, IdentifierOf(1))

PressingStatus ==
    \E chat \in Chats, from \in Senders :
        SetStatusButton(chat, from, "Done", IdentifierOf(1), OkMood(tracker))

PressingDone ==
    \E chat \in Chats, from \in Senders, answered \in BOOLEAN :
        DoneButton(chat, from, IdentifierOf(1), answered)

PressingCancel ==
    \E chat \in Chats, from \in Senders :
        CancelButton(chat, from, IssueId(1), OkMood(tracker))

NextAuth ==
    \/ Launching
    \/ Mentioning
    \/ TicketFrom
    \/ PressingEdit
    \/ PressingStatus
    \/ PressingDone
    \/ PressingCancel

SpecAuth == Init /\ [][NextAuth]_vars

(***************************************************************************)
(* Specification of the actions that send free text to the tracker         *)
(***************************************************************************)
FreeTextAnswers ==
    { Create(Tricky, Lines, Null), Edit(Known, "title", Tricky, Null),
      Edit(Known, "title", "Fix b", Null), Edit(Known, "description", Lines, Null) }

NextFreeText ==
    \/ Launching
    \/ Chatting(FreeTextAnswers)
    \/ Ticketing

SpecFreeText == Init /\ [][NextFreeText]_vars

(***************************************************************************)
(* Properties of the dispatcher.  `last` is the handling of the last       *)
(* update: its command, the requests made of the tracker, the reply.       *)
(***************************************************************************)
\* a well-formed update delivered twice in a row: deliveries i and i + 1
IsRepeatedUpdate(i) ==
    /\ i + 1 <= Len(deliveries)
    /\ deliveries[i].payload.action = "update"
    /\ ~Falsy(deliveries[i].payload.id)
    /\ ~Falsy(deliveries[i].payload.identifier)
    /\ ~Falsy(deliveries[i].payload.stateName)
    /\ deliveries[i + 1].payload = deliveries[i].payload

\* the notifications sent for deliveries i and i + 1
NotificationsOf(i) == SelectSeq(sent, LAMBDA e : e.delivery \in {i, i + 1})

\* the chat whose message had the issue created
OriginChats(issueId) == {c \in ChatIds : issueId \in chatIssues[c]}

AbsentRecordIsNoOp ==
    [][\A i \in 1..Len(deliveries) :
          /\ (/\ deliveries[i].pc = "hgetall"
              /\ deliveries'[i].pc # "hgetall"
              /\ hgetall(deliveries[i].payload.id) = NoRecord) =>
                 /\ deliveries'[i].pc = "done"
                 /\ store' = store
                 /\ chatIssues' = chatIssues
                 /\ sent' = sent
          /\ (deliveries[i].pc = "done" /\ deliveries[i].data = NoRecord) =>
                 /\ deliveries'[i] = deliveries[i]
                 /\ ~deliveries[i].wrote
                 /\ \A k \in 1..Len(sent') : sent'[k].delivery # i]_vars

\* an update and a comment have both found no record of their issue
AbsentRecordWitness ==
    /\ Len(deliveries) = 2
    /\ deliveries[1].payload.action = "update"
    /\ deliveries[2].payload.action = "create"
    /\ \A i \in 1..2 : deliveries[i].outcome = "absent" /\ ~deliveries[i].wrote
    /\ sent = <<>>
    /\ \A id \in IssueIds : store[id] = NoRecord

\* C14: the record a delivery of a comment writes has the status the record
\* had when the delivery read it.
CommentKeepsStatus ==
    \A i \in 1..Len(deliveries) :
        (deliveries[i].comment # NoComment /\ deliveries[i].wrote) =>
            deliveries[i].issue.status = deliveries[i].data.status

\* an update without the id, the identifier or the name of the state of its
\* issue; a comment without its body, the id of its issue or the name of its author
LacksFields(p) ==
    \/ /\ p.action = "update"
       /\ Falsy(p.id) \/ Falsy(p.identifier) \/ Falsy(p.stateName)
    \/ /\ p.action = "create"
       /\ p.type = "Comment"
       /\ Falsy(p.body) \/ Falsy(p.id) \/ Falsy(p.userName)

\* C15: a delivery that lacks a field is dropped when its callback runs: the
\* step leaves the store, the map of the last states and the notifications as
\* they are, and the delivery reads, writes and sends nothing, then or later.
IncompleteIsDropped ==
    [][\A i \in 1..Len(deliveries) :
          LacksFields(deliveries[i].payload) =>
              /\ deliveries'[i].pc \in {"queued", "done"}
              /\ deliveries'[i].data = NoRecord
              /\ ~deliveries'[i].wrote
              /\ \A k \in 1..Len(sent') : sent'[k].delivery # i
              /\ (deliveries[i].pc = "queued" /\ deliveries'[i].pc = "done") =>
                     /\ store' = store
                     /\ lastProcessedState' = lastProcessedState
                     /\ sent' = sent]_vars

\* an update without the name of its state and a comment without its author
\* have been dropped, with a record of their issue in the store
IncompleteIsDroppedWitness ==
    /\ Len(deliveries) = 2
    /\ deliveries[1].payload.action = "update"
    /\ deliveries[2].payload.action = "create"
    /\ \A i \in 1..2 : LacksFields(deliveries[i].payload) /\ deliveries[i].pc = "done"
    /\ store[IssueId(1)] # NoRecord
    /\ lastProcessedState[IdentifierOf(1)] = Undefined
    /\ sent = <<>>

\* C16: handle has returned its acknowledgment for a delivery when the delivery
\* arrives, with its processing still to run and nothing read, written or sent
\* for it, and the acknowledgment stays the same whatever the processing does.
AcknowledgedBeforeProcessing ==
    [][/\ \A i \in 1..Len(deliveries') : deliveries'[i].ack = "ok"
       /\ Len(deliveries') > Len(deliveries) =>
              /\ deliveries'[Len(deliveries')].pc = "queued"
              /\ deliveries'[Len(deliveries')].data = NoRecord
              /\ ~deliveries'[Len(deliveries')].wrote
              /\ store' = store
              /\ tracker' = tracker
              /\ lastProcessedState' = lastProcessedState
              /\ sent' = sent]_vars

\* acknowledged deliveries of which one was notified and the next one dropped
AcknowledgedWitness ==
    /\ Len(deliveries) = 2
    /\ deliveries[1].ack = "ok" /\ deliveries[1].outcome = "notified"
    /\ deliveries[2].ack = "ok" /\ deliveries[2].outcome = "dropped"
    /\ Len(sent) = 1

\* two deliveries in a row of updates of one issue to two different states, of
\* which the first found the record of the issue
IsStatusRace ==
    /\ Len(deliveries) = 2
    /\ \A i \in 1..2 : /\ deliveries[i].payload.action = "update"
                        /\ ~Falsy(deliveries[i].payload.id)
                        /\ ~Falsy(deliveries[i].payload.identifier)
                        /\ ~Falsy(deliveries[i].payload.stateName)
    /\ deliveries[1].payload.id = deliveries[2].payload.id
    /\ deliveries[1].payload.identifier = deliveries[2].payload.identifier
    /\ deliveries[1].payload.stateName # deliveries[2].payload.stateName
    /\ deliveries[1].pc \in {"hset", "send", "done"}
    /\ deliveries[1].outcome # "absent"

\* C26: when two updates of one issue that has a record are delivered one after
\* the other with the states S1 then S2, then however the steps of their
\* deferred processings interleave, the second never writes the record or
\* notifies before the first has, the notifications are sent in the order of
\* the deliveries, and once both have written the record has the status S2.
UpdatesReconciledInOrder ==
    IsStatusRace =>
        /\ deliveries[2].wrote => deliveries[1].wrote
        /\ deliveries[2].pc = "done" => deliveries[1].pc = "done"
        /\ \A a, b \in 1..Len(sent) : a < b => sent[a].delivery <= sent[b].delivery
        /\ deliveries[2].wrote =>
               store[deliveries[2].payload.id].status = deliveries[2].payload.stateName
        /\ (deliveries[1].outcome = "notified" /\ deliveries[2].outcome = "notified") =>
               [i \in 1..2 |-> sent[i].status] =
                   <<deliveries[1].payload.stateName, deliveries[2].payload.stateName>>

\* both processings read the record before either wrote it, and both notified
UpdatesReconciledWitness ==
    /\ IsStatusRace
    /\ deliveries[1].outcome = "notified" /\ deliveries[2].outcome = "notified"
    /\ deliveries[1].data.status = deliveries[2].data.status
    /\ store[deliveries[2].payload.id].status = deliveries[2].payload.stateName
    /\ Len(sent) = 2

\* C27: an attempt of the launch that fails is followed by another attempt
\* exactly when the failure is a conflict and fewer than 5 attempts were made;
\* any other failure, and the failure of the fifth attempt, stops launchBot
\* with the error written to the console; no more than 5 attempts are made, and
\* a launch that has begun its attempts ends, polling or stopped.
LaunchRetriesAreBounded ==
    /\ [][\A outcome \in LaunchOutcomes \ {"ok"} :
              Launch(outcome) =>
                  IF outcome = "conflict" /\ launch.attempt < 5
                  THEN /\ launch'.pc = "launching"
                       /\ launch'.attempt = launch.attempt + 1
                       /\ ~launch'.logged
                  ELSE /\ launch'.pc = "stopped"
                       /\ launch'.logged]_vars
    /\ [](launch.attempt \in 0..5)
    /\ (launch.pc = "launching") ~> (launch.pc \in {"polling", "stopped"})

\* the fifth attempt has failed: launchBot has stopped and written the error
LaunchRetriesWitness ==
    /\ launch.pc = "stopped"
    /\ launch.attempt = 5
    /\ launch.logged
    /\ isLaunched /\ bot = BotSet

\* the fields of a record a delivery has no part in
KeptFields == {"chatId", "username", "firstName", "lastName", "team", "issueId", "identifier",
               "title", "description", "createdAt"}

\* the comments a record holds
CommentsOf(record) == parseComments(Get(record, "comments"))

\* C29: the write of a delivery of an update puts under the key of the issue a
\* record that differs from the record the delivery read by its status and its
\* updatedAt only: chatId, username, firstName, lastName, team, issueId,
\* identifier, title, description, createdAt are the same and the comments are
\* the same ones in the same order; the records of other keys are left alone.
StatusMergeKeepsTheRest ==
    [][\A i \in 1..Len(deliveries) :
          (Hset(i) /\ deliveries[i].payload.action = "update") =>
              LET id == deliveries[i].payload.id
                  before == deliveries[i].data
                  after == store'[id]
              IN  /\ \A k \in KeptFields : after[k] = before[k]
                  /\ after.issueId = id
                  /\ CommentsOf(after) = CommentsOf(before)
                  /\ "comments" \in DOMAIN before /\ ~Falsy(before.comments) =>
                         after.comments = before.comments
                  /\ after.status = deliveries[i].payload.stateName
                  /\ DOMAIN after = KeptFields \cup {"status", "updatedAt", "comments"}
                  /\ \A other \in IssueIds \ {id} : store'[other] = store[other]
                  /\ store[id] = before =>
                         \A k \in DOMAIN before \ {"status", "updatedAt", "comments"} :
                             store'[id][k] = store[id][k]]_vars

\* an update was merged into a record that held two comments
StatusMergeWitness ==
    \E i \in 1..Len(deliveries) :
        /\ deliveries[i].payload.action = "update"
        /\ deliveries[i].wrote
        /\ Len(CommentsOf(deliveries[i].data)) = 2
        /\ CommentsOf(deliveries[i].data)[1].text = PastComment(1).text
        /\ store[deliveries[i].payload.id].status = "Done"
        /\ store[deliveries[i].payload.id].title = "Fix \"a\""

\* the entry updateIssueStatuss makes of the comment of a delivery
EntryOf(d) ==
    [text |-> d.payload.body, author |-> d.payload.userName,
     createdAt |-> IF Falsy(d.payload.createdAt) THEN toISOString(now)
                   ELSE d.payload.createdAt]

\* the deliveries were processed one after the other: each read what the one
\* before it wrote
OneAfterAnother ==
    \A i \in 2..Len(deliveries) :
        deliveries[i].wrote => deliveries[i - 1].wrote /\ deliveries[i].data = deliveries[i - 1].issue

\* C30: the write of a delivery of a comment puts in the record the comments
\* the delivery read, each in its place, followed by one entry with the text,
\* the author and the date of the comment; when the deliveries of comments of
\* an issue are processed one after the other, the record holds after them
\* the comments it had followed by theirs in the order of the deliveries.
CommentMergeAppends ==
    /\ [][\A i \in 1..Len(deliveries) :
              (Hset(i) /\ deliveries[i].payload.action = "create") =>
                  CommentsOf(store'[deliveries[i].payload.id]) =
                      Append(CommentsOf(deliveries[i].data), EntryOf(deliveries[i]))]_vars
    /\ []((/\ Len(deliveries) = MaxDeliveries
           /\ \A i \in 1..Len(deliveries) :
                  deliveries[i].payload.action = "create" /\ deliveries[i].wrote
           /\ OneAfterAnother) =>
              CommentsOf(store[IssueId(1)]) =
                  CommentsOf(deliveries[1].data)
                      \o [i \in 1..Len(deliveries) |-> EntryOf(deliveries[i])])

\* two comments were merged one after the other into a record that held two
CommentMergeWitness ==
    /\ Len(deliveries) = 2
    /\ \A i \in 1..2 : deliveries[i].payload.action = "create" /\ deliveries[i].wrote
    /\ deliveries[1].payload # deliveries[2].payload
    /\ OneAfterAnother
    /\ Len(CommentsOf(deliveries[1].data)) = 2
    /\ Len(CommentsOf(store[IssueId(1)])) = 4
    /\ CommentsOf(store[IssueId(1)])[4].text = deliveries[2].payload.body

\* a write of a delivery put back the comments it had read and left out the
\* comment another delivery had written in between
CommentOverwritten ==
    \E i, j \in 1..Len(deliveries) :
        /\ i # j
        /\ deliveries[i].wrote /\ deliveries[j].wrote
        /\ deliveries[i].payload.action = "create"
        /\ \A k \in 1..Len(CommentsOf(store[IssueId(1)])) :
               CommentsOf(store[IssueId(1)])[k].text # deliveries[i].payload.body

\* the same comment, with its issue, body, author and date, delivered twice
IsRepeatedComment ==
    /\ Len(deliveries) = 2
    /\ deliveries[1].payload.action = "create"
    /\ deliveries[1].payload.type = "Comment"
    /\ commentIsComplete(deliveries[1].payload)
    /\ deliveries[2].payload = deliveries[1].payload

\* C31: when the same comment is delivered twice, the second delivery is
\* absorbed: it writes nothing and sends nothing, so that the record holds one
\* copy of the comment and the chat got one notification.
RepeatedCommentIsAbsorbed ==
    (IsRepeatedComment /\ deliveries[1].pc = "done" /\ deliveries[2].pc = "done") =>
        /\ ~deliveries[2].wrote
        /\ Cardinality({k \in 1..Len(CommentsOf(store[IssueId(1)])) :
                           CommentsOf(store[IssueId(1)])[k].text = deliveries[1].payload.body})
               <= 1
        /\ Len(SelectSeq(sent, LAMBDA e : e.delivery = 2)) = 0

\* two deliveries about issue 1 that both wrote its record, of which one at
\* least is a comment
IsSharedWrite ==
    /\ Len(deliveries) = 2
    /\ \A i \in 1..2 : deliveries[i].payload.id = IssueId(1) /\ deliveries[i].wrote
    /\ \E i \in 1..2 : deliveries[i].payload.action = "create"

\* C32: the deliveries of two comments, or of a comment and a status change,
\* of one issue never have their reads and writes of the record interleaved:
\* the second reads what the first wrote, and the record they leave holds the
\* comment of each delivery of a comment.
WritesAreNotInterleaved ==
    IsSharedWrite =>
        /\ deliveries[2].data = deliveries[1].issue
        /\ \A i \in 1..2 :
               deliveries[i].payload.action = "create" =>
                   \E k \in 1..Len(CommentsOf(store[IssueId(1)])) :
                       CommentsOf(store[IssueId(1)])[k].text = deliveries[i].payload.body

\* the ids of the issues whose record names the chat
RecordsOf(chatId) ==
    {id \in IssueIds : store[id] # NoRecord /\ parseInt(store[id].chatId) = chatId}

\* C33: the handling of a message, a command or a button that arrives in a
\* chat leaves alone what belongs to every other chat: the records of the
\* issues created from it, its index of issues and its history, also when the
\* command names a ticket created from the other chat.
OtherChatsAreLeftAlone ==
    [][(last' # last /\ last'.entry # "none") =>
           \A other \in ChatIds \ {last'.chat} :
               /\ chatIssues'[other] = chatIssues[other]
               /\ history'[other] = history[other]
               /\ \A id \in RecordsOf(other) : store'[id] = store[id]]_vars

\* C34: after an edit of the title or of the description of a ticket that the
\* tracker answered with success, the record of the issue, when the store holds
\* one, has the new value in that field.
EditUpdatesRecord ==
    (/\ last.handler = "edit"
     /\ last.command.editField \in {"title", "description"}
     /\ last.reply = "Ticket " \o last.command.editField \o " updated!") =>
        LET id == IssueId(FindIssue(tracker, last.command.ticketIdentifier))
        IN  store[id] # NoRecord =>
                store[id][last.command.editField] = last.command.newValue

\* C35: once the processing of every delivery has completed, the map of the
\* last states holds a state for a ticket only if a notification of that
\* ticket with that state was sent.
MapHoldsNotifiedStatesOnly ==
    (\A i \in 1..Len(deliveries) : deliveries[i].pc = "done") =>
        \A x \in Identifiers :
            lastProcessedState[x] # Undefined =>
                \E k \in 1..Len(sent) :
                    sent[k].identifier = x /\ sent[k].status = lastProcessedState[x]

\* C37: every issue id in the index set of a chat has a record in the store whose
\* chatId is that chat: no entry of an index is left behind when the record of
\* its issue is removed.
IndexEntriesHaveRecords ==
    \A c \in ChatIds : \A id \in chatIssues[c] :
        store[id] # NoRecord /\ parseInt(store[id].chatId) = c

\* the six actions of the vocabulary of commands
Vocabulary == {"create", "edit", "cancel", "delete", "assign", "status"}

\* the mutations the handler of an action sends
HandlerMutations(handler) ==
    CASE handler = "create" -> {"issueCreate"}
      [] handler = "cancel" -> {"issueArchive"}
      [] handler = "delete" -> {"issueDelete"}
      [] OTHER -> {"issueUpdate"}

\* the last message brought a command with a confidence of 0.5 or more
IsDispatched ==
    /\ last.entry = "message"
    /\ last.command # NoCommand
    /\ last.command.confidence \notin {Undefined, Null}
    /\ ~BelowThreshold(last.command.confidence)

\* C40: a command with a confidence of 0.5 or more is handled by one handler,
\* that of its action whatever its other fields, and by the handler of create
\* when the action is not of the vocabulary: the mutations sent are those of that
\* handler only, and a command with an unknown action and a title has the ticket
\* created.
DispatchedByActionAlone ==
    IsDispatched =>
        LET action == last.command.action
            taken == IF action \in Vocabulary THEN action ELSE "create"
            sentOut == Mutations(last.calls)
        IN  /\ last.handler = taken
            /\ last.reply # "Could not understand your request"
            /\ \A k \in 1..Len(sentOut) : sentOut[k].op \in HandlerMutations(taken)
            /\ (action \notin Vocabulary /\ ~Falsy(last.command.title)) =>
                   /\ Len(sentOut) = 1
                   /\ sentOut[1].titleText = last.command.title
                   /\ last.reply \in {"Ticket Created Successfully!", "Failed to create ticket"}
                   /\ (last.env.mutation = "ok" /\ last.env.number >= 0) =>
                          last.reply = "Ticket Created Successfully!"

DispatchedByActionWitness ==
    /\ IsDispatched
    /\ last.command.action = "close"
    /\ last.command.ticketIdentifier = Known
    /\ last.handler = "create"
    /\ last.reply = "Ticket Created Successfully!"
    /\ \E id \in IssueIds : store[id] # NoRecord /\ store[id].title = "Fix a"

StartsWith(s, prefix) == Slice(s, 1, Len(prefix)) = prefix

\* the tracker user the resolver finds for the assignee of the last command
LastAssigneeId == getUserIdByName(last.command.assigneeName, linearUsers)

\* C2: a command with action assign and a null ticket identifier, of confidence
\* 0.5 or more, is not carried out: the dispatcher makes no request of the
\* tracker for it and replies that it could not identify the ticket.
AssignWithoutTicketIsRejected ==
    (last.handler = "assign" /\ last.command.ticketIdentifier = Null) =>
        /\ last.calls = <<>>
        /\ last.writes = <<>>
        /\ last.reply = "Could not identify the ticket"

AssignWithoutTicketWitness ==
    /\ last.handler = "assign"
    /\ last.command.ticketIdentifier = Null
    /\ ~Falsy(last.command.assigneeName)
    /\ ~BelowThreshold(last.command.confidence)
    /\ last.reply = "Could not identify the ticket"

\* C19: a command with action assign and no ticket identifier that the message
\* handler dispatches is handled by the handler of create.
AssignWithoutTicketIsCreate ==
    (/\ last.entry = "message"
     /\ last.handler # "none"
     /\ last.command.action = "assign"
     /\ Falsy(last.command.ticketIdentifier)) =>
        /\ last.handler = "create"
        /\ last.reply # "Could not identify the ticket"

\* C23: when the call of the oracle fails, or its content cannot be decoded, or
\* the command decoded has a confidence below 0.5, the message handler replies
\* that it could not understand and calls no handler: no mutation is sent to
\* the tracker and nothing is written to the store.
NotUnderstoodDoesNothing ==
    [][\A chat \in Chats, content \in Undecodable \cup Unsure :
           Asked(chat, content) =>
               /\ content \in Undecodable => last'.command = NoCommand
               /\ last'.reply = "Could not understand your request"
               /\ last'.handler = "none"
               /\ Mutations(last'.calls) = <<>>
               /\ last'.writes = <<>>
               /\ store' = store
               /\ chatIssues' = chatIssues
               /\ tracker' = tracker]_vars

\* a create command with a title and confidence 0.49 was not understood, after
\* the same command with confidence 0.5 made an issue in the other chat
NotUnderstoodWitness ==
    /\ last.entry = "message"
    /\ last.command # NoCommand
    /\ last.command.action = "create"
    /\ last.command.title = "Fix a"
    /\ last.command.confidence = "0.49"
    /\ last.reply = "Could not understand your request"
    /\ \E n \in IssueNumbers : store[IssueId(n)] # NoRecord

\* the strings the oracle writes in place of null
Sentinels == {"null", "undefined", ""}

\* C24: in the command parseCommand returns no field among assigneeName,
\* ticketIdentifier, newStatus, title, description, editField and newValue is
\* the string "null", "undefined" or "": such a field is null, and a command to
\* modify a ticket whose identifier the oracle gave as "null" is answered as one
\* without ticket.
SentinelsAreNull ==
    (last.entry = "message" /\ last.command # NoCommand) =>
        /\ \A k \in CommandFields \ {"action", "confidence"} : last.command[k] \notin Sentinels
        /\ (last.handler \in {"edit", "cancel", "delete", "assign", "status"}
                /\ Falsy(last.command.ticketIdentifier)) =>
              last.reply = "Could not identify the ticket"

\* the writes to the records of issues and to the index of chats
StoreWrites(writes) ==
    SelectSeq(writes, LAMBDA w : w.op \in {"hset", "sadd", "del", "srem"})

\* C25: at every entry point (a message that mentions the bot, /ticket, and the
\* buttons edit, edit field, set status, done and cancel) the handling for a
\* sender without username, or whose username is not among the allowed ones,
\* sends no mutation to the tracker and writes nothing to the store.
UnauthorizedChangesNothing ==
    [][(/\ last' # last
        /\ last'.entry \in {"message", "ticket", "edit_", "editfield_", "setstatus_",
                            "done_", "cancel_"}
        /\ (Falsy(last'.username) \/ last'.username \notin allowedUsernames)) =>
           /\ Mutations(last'.calls) = <<>>
           /\ StoreWrites(last'.writes) = <<>>
           /\ store' = store
           /\ chatIssues' = chatIssues
           /\ tracker' = tracker]_vars

\* a sender who is not allowed pressed cancel on the issue a chat created, which
\* is still open and still has its record
UnauthorizedWitness ==
    /\ last.entry = "cancel_"
    /\ last.username = "mallory"
    /\ last.reply = "You are not authorized"
    /\ tracker[1] = "open"
    /\ store[IssueId(1)] # NoRecord

\* the replies of an edit whose mutation the tracker answered
UpdateAnswered(editField) ==
    {"Ticket " \o editField \o " updated!", "Failed to update " \o editField}

\* the name of the input field of issueUpdate for a field to edit
InputFieldOf(editField) ==
    CASE editField = "assignee" -> "assigneeId"
      [] editField = "status" -> "stateId"
      [] OTHER -> editField

\* C22: an edit command with a ticket and editField null or "menu" is answered
\* with the menu of fields and makes no request to the tracker; with editField
\* title, description, assignee or status it sends at most one mutation, and the
\* mutation the tracker answers is one issueUpdate whose input holds that one
\* field only.
EditIsMenuOrOneField ==
    (last.handler = "edit" /\ ~Falsy(last.command.ticketIdentifier)) =>
        IF Falsy(last.command.editField) \/ last.command.editField = "menu"
        THEN last.reply = "What would you like to edit?" /\ last.calls = <<>>
        ELSE last.command.editField \in {"title", "description", "assignee", "status"} =>
                LET m == Mutations(last.calls)
                IN  /\ Len(m) <= 1
                    /\ last.reply \in UpdateAnswered(last.command.editField) =>
                          /\ Len(m) = 1
                          /\ m[1].op = "issueUpdate"
                          /\ FieldsOf(m[1]) = <<InputFieldOf(last.command.editField)>>

\* the index of chats without the id of a record in the chat the record belongs to
Unindexed(issueId) ==
    IF store[issueId] = NoRecord THEN chatIssues
    ELSE [chatIssues EXCEPT ![parseInt(store[issueId].chatId)] = @ \ {issueId}]

\* C21: a delete command with a ticket the tracker resolves sends exactly one
\* issueDelete and, only with the tracker's success, removes the record of the
\* issue and takes its id out of the index of the chat the record belongs to;
\* when the ticket is not resolved or the delete fails, record and index are as
\* they were.
DeletePurgesRecordAndIndex ==
    [][(/\ last' # last
        /\ last'.handler = "delete"
        /\ ~Falsy(last'.command.ticketIdentifier)) =>
           LET n == FindIssue(tracker, last'.command.ticketIdentifier)
           IN  IF n >= 0 /\ last'.env.lookup = "ok"
               THEN /\ Mutations(last'.calls) = <<[op |-> "issueDelete", id |-> IssueId(n)]>>
                    /\ IF last'.env.mutation = "ok"
                       THEN /\ store' = [store EXCEPT ![IssueId(n)] = NoRecord]
                            /\ chatIssues' = Unindexed(IssueId(n))
                       ELSE store' = store /\ chatIssues' = chatIssues
               ELSE /\ Mutations(last'.calls) = <<>>
                    /\ store' = store
                    /\ chatIssues' = chatIssues]_vars

\* the archive mutations among the requests of the last handling
Archives(calls) == SelectSeq(calls, LAMBDA call : call.op = "issueArchive")

\* what a handling that archives the issue n leaves: with the tracker's success
\* the record of the issue is removed, the removal being its only write, and
\* the reply tells the ticket is cancelled; otherwise the store is as it was and
\* the reply tells of no cancellation
ArchiveOutcome(n, succeeds, done) ==
    /\ Len(Mutations(last'.calls)) = 1
    /\ Archives(last'.calls) = <<[op |-> "issueArchive", id |-> IssueId(n)]>>
    /\ IF succeeds
       THEN /\ tracker'[n] = "archived"
            /\ store' = [store EXCEPT ![IssueId(n)] = NoRecord]
            /\ last'.writes = <<[op |-> "del", id |-> IssueId(n)]>>
            /\ last'.reply = done
       ELSE /\ store' = store
            /\ tracker' = tracker
            /\ last'.writes = <<>>
            /\ last'.reply \in {"Failed to cancel ticket", "Error cancelling ticket"}

\* C20: a cancel command with a ticket the tracker resolves sends exactly one
\* issueArchive, and the record of the issue is removed after it only when the
\* tracker answers with success; when the ticket is not resolved, or the
\* archive fails or errors, the store is left as it was and the reply tells of
\* no cancellation.  The cancel button does the same with the id it carries.
CancelArchivesThenRemoves ==
    [][/\ (/\ last' # last
           /\ last'.handler = "cancel"
           /\ ~Falsy(last'.command.ticketIdentifier)) =>
              LET n == FindIssue(tracker, last'.command.ticketIdentifier)
              IN  IF n >= 0 /\ last'.env.lookup = "ok"
                  THEN ArchiveOutcome(n, last'.env.mutation = "ok", "Ticket Cancelled")
                  ELSE /\ Mutations(last'.calls) = <<>>
                       /\ store' = store
                       /\ tracker' = tracker
                       /\ last'.writes = <<>>
                       /\ last'.reply \in {"Ticket not found", "Error cancelling ticket"}
       /\ (last' # last /\ last'.entry = "cancel_" /\ last'.calls # <<>>) =>
              \E n \in IssueNumbers :
                  ArchiveOutcome(n, last'.env.mutation = "ok" /\ tracker[n] # "none",
                                 "Ticket cancelled!")]_vars

\* the issue a chat created has been cancelled by a command and its record removed
CancelWitness ==
    /\ last.handler = "cancel"
    /\ last.command.ticketIdentifier = IdentifierOf(1)
    /\ last.reply = "Ticket Cancelled"
    /\ tracker[1] = "archived"
    /\ store[IssueId(1)] = NoRecord
    /\ \E c \in ChatIds : IssueId(1) \in chatIssues[c]

\* C3: a create command with a title and an assignee that resolves to a tracker
\* user makes exactly one issueCreate mutation, with the escaped title, the
\* escaped description (followed by the escaped context of the request) and the
\* id of the user; when the tracker returns an issue, one record is written
\* under the id of the issue and the id is added to the index of the chat.
CreateMakesOneIssue ==
    (/\ last.handler = "create"
     /\ ~Falsy(last.command.title)
     /\ ~Falsy(last.command.assigneeName)
     /\ LastAssigneeId # Null) =>
        LET m == Mutations(last.calls)
            returned == last.env.mutation = "ok" /\ last.env.number >= 0
            id == IssueId(last.env.number)
        IN  /\ Len(m) = 1
            /\ m[1].op = "issueCreate"
            /\ m[1].title = escapeGraphQLString(last.command.title)
            /\ m[1].description = escapeGraphQLString(m[1].descriptionText)
            /\ StartsWith(m[1].descriptionText, OrElse(last.command.description, ""))
            /\ StartsWith(m[1].description,
                          escapeGraphQLString(OrElse(last.command.description, "")))
            /\ m[1].assigneeId = LastAssigneeId
            /\ returned <=> last.reply = "Ticket Created Successfully!"
            /\ ~returned => last.writes = <<>>
            /\ returned =>
                /\ last.writes = << [op |-> "hset", id |-> id],
                                    [op |-> "sadd", chat |-> last.chat, id |-> id] >>
                /\ store[id] # NoRecord
                /\ store[id].issueId = id
                /\ store[id].chatId = NumberToString(last.chat)
                /\ id \in chatIssues[last.chat]

CreateMakesOneIssueWitness ==
    /\ last.handler = "create"
    /\ last.command.title = Tricky
    /\ last.command.description = Lines
    /\ LastAssigneeId = "u1"
    /\ last.reply = "Ticket Created Successfully!"
    /\ Mutations(last.calls)[1].title = "say \\\"hi\\\"\\\\"
    /\ store[IssueId(1)].title = Tricky
    /\ chatIssues[last.chat] = {IssueId(1)}

\* the answer of the tracker to the queries of a status command is the list of
\* the states and the ticket of the command
StatusIsAnswered ==
    /\ last.handler = "status"
    /\ ~Falsy(last.command.ticketIdentifier)
    /\ ~Falsy(last.command.newStatus)
    /\ FindIssue(tracker, last.command.ticketIdentifier) >= 0
    /\ last.env.lookup = "ok"
    /\ last.env.states = "ok"

StatusOutcome(named) ==
    IF named = {}
    THEN last.reply = "Status not found" /\ Mutations(last.calls) = <<>>
    ELSE LET m == Mutations(last.calls)
         IN  /\ Len(m) = 1
             /\ m[1].op = "issueUpdate"
             /\ m[1].field = "stateId"
             /\ \E i \in named : m[1].literal = WorkflowStates[i].id

\* C5 as the specification words it: the name of the status is equal, but for
\* the case of its letters, to the name of a state, or it is rejected.
StatusMatchedExactly ==
    StatusIsAnswered =>
        StatusOutcome({i \in 1..Len(WorkflowStates) :
            toLowerCase(WorkflowStates[i].name) = toLowerCase(last.command.newStatus)})

\* C5: for a status command on a ticket the tracker knows, the name of the
\* status, without the blanks around it, is matched against the names of the
\* workflow states whole and without regard to case: a match makes exactly one
\* issueUpdate with the id of the state, a name that matches no state is
\* rejected with "Status not found" and no mutation.
StatusMatchedTrimmed ==
    StatusIsAnswered =>
        StatusOutcome({i \in 1..Len(WorkflowStates) :
            toLowerCase(WorkflowStates[i].name) = trim(toLowerCase(last.command.newStatus))})

StatusMatchedWitness ==
    /\ StatusIsAnswered
    /\ last.command.newStatus = "In Progress"
    /\ Mutations(last.calls) = << [op |-> "issueUpdate", id |-> IssueId(0),
                                  field |-> "stateId", literal |-> "s2", text |-> "s2"] >>
    /\ last.reply = "Ticket status updated"

\* what the last command names that the tracker does not resolve
UnresolvedTicket ==
    /\ last.handler \in {"edit", "assign", "status", "cancel", "delete"}
    /\ ~Falsy(last.command.ticketIdentifier)
    /\ FindIssue(tracker, last.command.ticketIdentifier) < 0

UnresolvedPerson ==
    /\ last.handler \in {"create", "assign"}
    /\ ~Falsy(last.command.assigneeName)
    /\ last.handler = "create" => ~Falsy(last.command.title)
    /\ last.handler = "assign" => ~Falsy(last.command.ticketIdentifier)
    /\ LastAssigneeId = Null

UnresolvedStatus ==
    /\ last.handler = "status"
    /\ ~Falsy(last.command.ticketIdentifier)
    /\ ~Falsy(last.command.newStatus)
    /\ \A i \in 1..Len(WorkflowStates) :
           toLowerCase(WorkflowStates[i].name) # trim(toLowerCase(last.command.newStatus))

\* C6: whatever the action, a command that names a ticket, a person or a status
\* that cannot be resolved is answered with a rejection that names what was not
\* resolved, and no mutation is sent to the tracker.
UnresolvedIsRejected ==
    /\ UnresolvedTicket => last.reply = "Ticket not found" /\ Mutations(last.calls) = <<>>
    /\ (UnresolvedPerson /\ ~UnresolvedTicket) =>
            last.reply = "User not found" /\ Mutations(last.calls) = <<>>
    /\ (UnresolvedStatus /\ ~UnresolvedTicket) =>
            last.reply = "Status not found" /\ Mutations(last.calls) = <<>>

\* C7: a create command without a title is rejected with a reply that asks for
\* more: no request is made of the tracker, neither the mutation nor the lookup
\* of the assignee, and neither a record nor an entry of a chat index is written.
CreateWithoutTitleIsRejected ==
    [][(last'.handler = "create" /\ Falsy(last'.command.title)) =>
          /\ last'.reply = "Could not determine ticket title"
          /\ last'.calls = <<>>
          /\ last'.writes = <<>>
          /\ store' = store
          /\ chatIssues' = chatIssues
          /\ tracker' = tracker]_vars

CreateWithoutTitleWitness ==
    /\ last.handler = "create"
    /\ last.command.title = Null
    /\ ~Falsy(last.command.assigneeName)
    /\ last.reply = "Could not determine ticket title"

\* the free texts of a request and the literals they were made into
FreeTexts(call) ==
    CASE call.op = "issueCreate" ->
            { <<call.titleText, call.title>>, <<call.descriptionText, call.description>> }
      [] call.op = "issueUpdate" /\ call.field \in {"title", "description"} ->
            { <<call.text, call.literal>> }
      [] OTHER -> {}

\* C9: every action that puts a free text into a mutation (create from a
\* command, create from /ticket, edit of the title, edit of the description)
\* escapes backslash, quote, newline, tab and carriage return in it, so that the
\* literal reads back as the text and no text ends its own literal.
FreeTextIsEscaped ==
    \A k \in 1..Len(last.calls) : \A t \in FreeTexts(last.calls[k]) :
        /\ t[2] = escapeGraphQLString(t[1])
        /\ UnescapeGraphQL(t[2]) = t[1]

(***************************************************************************)
(* Specification of escapeGraphQLString alone                              *)
(***************************************************************************)
MaxEscLen == 3

EscAlphabet == {"\"", "\\", "\n", "\r", "\t", "a", "n"}

InitEscape ==
    /\ probe \in {[op |-> "input", in |-> s, out |-> ""] :
                     s \in StringsUpTo(EscAlphabet, MaxEscLen)}
    /\ InitProgram

ApplyEscape ==
    /\ probe.op = "input"
    /\ probe' = [op |-> "escaped", in |-> probe.in, out |-> escapeGraphQLString(probe.in)]
    /\ UNCHANGED program

NextEscape == ApplyEscape

SpecEscape == InitEscape /\ [][NextEscape]_vars

\* C8: reading the escaped text back with a conformant GraphQL string reader
\* yields the original text, for every text over quote, backslash, newline,
\* carriage return, tab and ordinary characters.
EscapeRoundTrips ==
    probe.op = "escaped" => UnescapeGraphQL(probe.out) = probe.in

\* a text holding a backslash next to a quote and a control character has been escaped
EscapeRoundTripsWitness ==
    /\ probe.op = "escaped"
    /\ probe.in = "\\\"\n"
    /\ probe.out = "\\\\\\\"\\n"

(***************************************************************************)
(* Specification of the cache of tracker users: calls of fetchLinearUsers  *)
(* at instants around the multiples of the TTL, with the tracker answering *)
(* with a list, with no list or not at all                                 *)
(***************************************************************************)
MaxPeriods == 2

Instants ==
    {StartTime + k * USERS_CACHE_TTL + e : k \in 0..MaxPeriods, e \in {0 - 1, 0, 1}}

\* time passes
Tick ==
    /\ \E t \in Instants : t > now /\ now' = t
    /\ UNCHANGED <<probe, botVars, linearUsers, usersLastFetched, store, chatIssues,
                   tracker, hookVars, history, last>>

FetchAnswers ==
    { [kind |-> "error"], [kind |-> "nolist"],
      [kind |-> "list", nodes |-> Team],
      [kind |-> "list", nodes |-> SubSeq(Team, 2, 3)],
      [kind |-> "list", nodes |-> <<>>] }

\* a call of fetchLinearUsers: what the cache was, the answer of the tracker if
\* it is asked, what the call returned and whether it asked
FetchUsers(response) ==
    /\ \E f \in {fetchLinearUsers(linearUsers, usersLastFetched, now, response)} :
           /\ linearUsers' = f.linearUsers
           /\ usersLastFetched' = f.usersLastFetched
           /\ probe' = [op |-> "fetched", at |-> now, response |-> response,
                        cached |-> linearUsers, stamp |-> usersLastFetched,
                        returned |-> f.linearUsers, requests |-> f.requests]
    /\ UNCHANGED <<botVars, now, store, chatIssues, tracker, hookVars, history, last>>

Fetching == \E response \in FetchAnswers : FetchUsers(response)

NextUsers ==
    \/ Tick
    \/ Fetching

SpecUsers == Init /\ [][NextUsers]_vars

\* C17: a call of fetchLinearUsers whose request fails, or is answered without
\* a list of users, returns the list the cache held and leaves the cache and
\* its timestamp as they were; the timestamp changes only when a request is
\* answered with a list, and then to the time of the call.
FailedFetchKeepsCache ==
    probe.op = "fetched" =>
        /\ (probe.requests = 1 /\ probe.response.kind # "list") =>
               /\ probe.returned = probe.cached
               /\ linearUsers = probe.cached
               /\ usersLastFetched = probe.stamp
        /\ usersLastFetched # probe.stamp =>
               /\ probe.requests = 1
               /\ probe.response.kind = "list"
               /\ usersLastFetched = probe.at

\* a request failed while the cache held an old list
FailedFetchWitness ==
    /\ probe.op = "fetched"
    /\ probe.requests = 1
    /\ probe.response.kind = "error"
    /\ probe.cached = Team
    /\ probe.returned = Team
    /\ usersLastFetched = StartTime
    /\ probe.at = StartTime + USERS_CACHE_TTL

\* C18: a call of fetchLinearUsers asks the tracker exactly when the cache is
\* empty or the time since the timestamp of the cache is the TTL or more; a call
\* that does not ask returns the cached list, and a list the tracker answers
\* with takes the place of the cached list whole.
FetchedWhenStale ==
    probe.op = "fetched" =>
        /\ probe.requests = 1 <=>
               (probe.cached = <<>> \/ probe.at - probe.stamp >= 5 * 60 * 1000)
        /\ probe.requests = 0 =>
               /\ probe.returned = probe.cached
               /\ linearUsers = probe.cached
               /\ usersLastFetched = probe.stamp
        /\ (probe.requests = 1 /\ probe.response.kind = "list") =>
               /\ linearUsers = probe.response.nodes
               /\ probe.returned = probe.response.nodes

\* a list of four users, one TTL old, has been replaced by a list of two
FetchedWhenStaleWitness ==
    /\ probe.op = "fetched"
    /\ probe.cached = Team
    /\ probe.at - probe.stamp = USERS_CACHE_TTL
    /\ probe.requests = 1
    /\ linearUsers = SubSeq(Team, 2, 3)

(***************************************************************************)
(* Specification of findUserByName alone: a name, which is an identifier of *)
(* a person of the directory in some letter case, with or without "@", or  *)
(* a name the directory does not hold, and a list of cached tracker users  *)
(***************************************************************************)
MaxUsers == 2

Capitals == {"A", "B", "C", "D", "E", "F", "G", "H", "I", "J", "K", "L", "M", "N", "O",
             "P", "Q", "R", "S", "T", "U", "V", "W", "X", "Y", "Z"}

UpperOf(c) ==
    IF \E u \in Capitals : LowerOf(u) = c THEN CHOOSE u \in Capitals : LowerOf(u) = c ELSE c

toUpperCase(str) ==
    With(str, LAMBDA s : Join([i \in 1..Len(s) |-> UpperOf(Ch(s, i))], 1, Len(s)))

\* the identifiers the directory registers for its k-th person
IdentifiersOf(k) ==
    {USER_MAPPINGS[k].telegramUsername, USER_MAPPINGS[k].linearName}
    \cup {USER_MAPPINGS[k].aliases[a] : a \in 1..Len(USER_MAPPINGS[k].aliases)}

\* an identifier as a message may write it
Spellings(id) == {id, toUpperCase(id), "@" \o id, "@" \o toUpperCase(id)}

Strangers == {"zed", "bob", "andy"}

\* tracker users: of persons of the directory (one with her email in capitals),
\* of others, and of namesakes of a person: one with the same local part of the
\* email, one whose name holds the canonical name, one whose name holds an alias
ResolveUsers ==
    { LinearUser("u1", "Florent T", "flo", "florent@mobula.io"),
      LinearUser("u2", "Sacha Marcus", "sacha", "sacha@mobula.io"),
      LinearUser("u3", "Delox", "sachadelox", "GOAT@Mobula.io"),
      LinearUser("u5", "Sanjay K", "sk", "sanjay@mobula.io"),
      LinearUser("u6", "Andy", "andy", "andy@ext.io"),
      LinearUser("u7", "F Bis", "fb", "florent@ext.io"),
      LinearUser("u8", "Florentin", "fn", "fn@ext.io"),
      LinearUser("u9", "Flora", "fa", "fa@ext.io") }

RECURSIVE ListsOf(_, _)
ListsOf(users, n) ==
    IF n = 0 THEN {<<>>}
    ELSE LET shorter == ListsOf(users, n - 1)
         IN  shorter \cup {Append(l, u) : l \in shorter, u \in users}

Distinct(l) == \A i, j \in 1..Len(l) : l[i] = l[j] => i = j

ResolveLists == {l \in ListsOf(ResolveUsers, MaxUsers) : Distinct(l)}

ResolveNames ==
    {<<k, n>> : k \in {0}, n \in Strangers}
    \cup UNION {{<<k, n>> : n \in UNION {Spellings(id) : id \in IdentifiersOf(k)}} :
                   k \in 1..Len(USER_MAPPINGS)}

InitResolve ==
    /\ probe \in {[op |-> "name", person |-> n[1], in |-> n[2], users |-> l, out |-> NoUser] :
                     n \in ResolveNames, l \in ResolveLists}
    /\ InitProgram

ApplyResolve ==
    /\ probe.op = "name"
    /\ probe' = [probe EXCEPT !.op = "resolved", !.out = findUserByName(probe.in, probe.users)]
    /\ UNCHANGED program

NextResolve == ApplyResolve

SpecResolve == InitResolve /\ [][NextResolve]_vars

\* the cached users that have the email of the directory's k-th person
UsersOf(k, users) ==
    {i \in 1..Len(users) :
        toLowerCase(users[i].email) = toLowerCase(USER_MAPPINGS[k].linearEmail)}

\* C11: for a name that is an alias, the canonical name or the chat handle of a
\* person of the directory, in any letter case and with or without a leading
\* "@", findUserByName returns a tracker user with the email of that person
\* whenever the cached list holds one.
RegisteredNameResolves ==
    (probe.op = "resolved" /\ probe.person # 0 /\ UsersOf(probe.person, probe.users) # {}) =>
        \E i \in UsersOf(probe.person, probe.users) : probe.out = probe.users[i]

RegisteredNameWitness ==
    /\ probe.op = "resolved"
    /\ probe.in = "@SANDY"
    /\ Len(probe.users) = 2
    /\ probe.users[2].id = "u5"
    /\ probe.users[1].id = "u6"
    /\ probe.out.id = "u5"

\* C12: when the directory holds the name, the user findUserByName returns is
\* one the strategies of the directory found, never one the direct search of
\* the list picked.
DirectoryOutranksDirect ==
    (probe.op = "resolved" /\ probe.person # 0 /\ probe.out # NoUser) =>
        /\ byDirectory(USER_MAPPINGS[probe.person], probe.users) # 0
        /\ probe.out = probe.users[byDirectory(USER_MAPPINGS[probe.person], probe.users)]

\* the strategies as the directory lookup is described: 1 the same email, 2 the
\* same local part of the email, 3 a name of the user within the canonical name
\* or the reverse, 4 an alias within a name or the local part of the user
MatchesBy(strategy, u, mapping) ==
    CASE strategy = 1 -> toLowerCase(u.email) = toLowerCase(mapping.linearEmail)
      [] strategy = 2 -> emailPrefix(u.email) = emailPrefix(mapping.linearEmail)
      [] strategy = 3 ->
             \E n \in {toLowerCase(u.name), toLowerCase(u.displayName)} :
                 \/ includes(n, toLowerCase(mapping.linearName))
                 \/ includes(toLowerCase(mapping.linearName), n)
      [] strategy = 4 ->
             \E a \in 1..Len(mapping.aliases) :
                 \E n \in {toLowerCase(u.name), toLowerCase(u.displayName),
                            emailPrefix(u.email)} :
                     includes(n, toLowerCase(mapping.aliases[a]))

Strategies == 1..4

\* the first strategy by which the user matches, 0 when it matches by none
RankOf(u, mapping) ==
    IF \A s \in Strategies : ~MatchesBy(s, u, mapping) THEN 0
    ELSE CHOOSE s \in Strategies :
             /\ MatchesBy(s, u, mapping)
             /\ \A t \in 1..(s - 1) : ~MatchesBy(t, u, mapping)

\* the ranks of the cached users for the person the name is of
ProbeRanks == [i \in 1..Len(probe.users) |-> RankOf(probe.users[i], USER_MAPPINGS[probe.person])]

\* C28: when the directory holds the name and some cached user matches by a
\* strategy, findUserByName returns a user that matches by the earliest
\* strategy any cached user matches by (exact email, then local part of the
\* email, then name against the canonical name, then alias), wherever it is in
\* the list.
EarliestStrategyWins ==
    (probe.op = "resolved" /\ probe.person # 0
         /\ \E i \in 1..Len(probe.users) : ProbeRanks[i] # 0) =>
        \E i \in 1..Len(probe.users) :
            /\ probe.out = probe.users[i]
            /\ ProbeRanks[i] # 0
            /\ \A j \in 1..Len(probe.users) : ProbeRanks[j] # 0 => ProbeRanks[i] <= ProbeRanks[j]

\* the user of the list's second place is returned for its email's local part,
\* while the first of the list matches by an alias only
EarliestStrategyWitness ==
    /\ probe.op = "resolved"
    /\ probe.person # 0
    /\ Len(probe.users) = 2
    /\ ProbeRanks = <<4, 2>>
    /\ probe.out = probe.users[2]

(***************************************************************************)
(* Specification of parseCommand alone: the oracle's answers are JSON      *)
(* objects written out compactly or over several lines, with the control   *)
(* characters of their strings escaped or raw, bare or inside a fence.     *)
(***************************************************************************)
RenderedFields == <<"action", "assigneeName", "title", "description", "confidence">>

JsonValue(k, v, raw) ==
    IF v = Null THEN "null"
    ELSE IF k = "confidence" THEN v
    ELSE "\"" \o JsonBody(v, raw) \o "\""

RECURSIVE RenderMembers(_, _, _, _)
RenderMembers(cmd, i, gap, raw) ==
    LET k == RenderedFields[i]
        member == gap \o "\"" \o k \o "\":" \o JsonValue(k, cmd[k], raw)
    IN  IF i = Len(RenderedFields) THEN member
        ELSE member \o "," \o RenderMembers(cmd, i + 1, gap, raw)

Render(cmd, lines, raw) ==
    "{" \o RenderMembers(cmd, 1, IF lines THEN "\n  " ELSE "", raw)
        \o (IF lines THEN "\n" ELSE "") \o "}"

Wrap(text, fence) ==
    CASE fence = "none" -> text
      [] fence = "json" -> Fence \o "json\n" \o text \o "\n" \o Fence
      [] fence = "bare" -> Fence \o "\n" \o text \o "\n" \o Fence \o "\n"

OracleCommand(assignee, title, description) ==
    [k \in CommandFields |->
        CASE k = "action" -> "create"
          [] k = "assigneeName" -> assignee
          [] k = "title" -> title
          [] k = "description" -> description
          [] k = "confidence" -> "0.9"
          [] OTHER -> Undefined]

ParseAssignees == {Null, "flo", "zed", "null"}

ParseTitles == {"Fix a", "say \"hi\"", "a\nb\tc", "C:\\"}

ParseDescriptions == {Null, "d\r\ne"}

ParseInputs ==
    {[op |-> "input", expect |-> OracleCommand(a, t, d), lines |-> lines, raw |-> raw,
      fence |-> fence, in |-> Wrap(Render(OracleCommand(a, t, d), lines, raw), fence),
      users |-> users, out |-> NoCommand] :
        a \in ParseAssignees, t \in ParseTitles, d \in ParseDescriptions,
        lines \in BOOLEAN, raw \in BOOLEAN, fence \in {"none", "json", "bare"},
        users \in {Team, <<>>}}

InitParse == probe \in ParseInputs /\ InitProgram

ApplyParse ==
    /\ probe.op = "input"
    /\ probe' = [probe EXCEPT !.op = "parsed", !.out = parseCommand(probe.in, probe.users)]
    /\ UNCHANGED program

NextParse == ApplyParse

SpecParse == InitParse /\ [][NextParse]_vars

\* the answers of the specification are what they are meant to be: without raw
\* control characters each is a JSON text that decodes to the object it renders
RenderedIsJson ==
    ~probe.raw =>
        LET parsed == JSONparse(Render(probe.expect, probe.lines, FALSE))
        IN  parsed.ok /\ AsCommand(parsed.v) = probe.expect

\* C4: the assigneeName of a command parseCommand returns is null or the name of
\* the tracker user the resolver finds for the oracle's assignee; an assignee the
\* resolver does not find is cleared.
AssigneeNullOrResolved ==
    (probe.op = "parsed" /\ probe.out # NoCommand) =>
        \/ probe.out.assigneeName = Null
        \/ /\ ~Falsy(probe.expect.assigneeName)
           /\ findUserByName(probe.expect.assigneeName, probe.users) # NoUser
           /\ probe.out.assigneeName =
                  findUserByName(probe.expect.assigneeName, probe.users).name

ControlCharacters == {"\n", "\r", "\t"}

HoldsControl(v) == ~Falsy(v) /\ \E i \in 1..Len(v) : Ch(v, i) \in ControlCharacters

\* the answer is a JSON object, but for the raw control characters in its strings
HasRawControls ==
    probe.raw /\ \E k \in {"title", "description"} : HoldsControl(probe.expect[k])

\* the answer is a valid JSON object in a fence
IsFencedJson == probe.fence # "none" /\ ~HasRawControls

SameFields(a, b) == \A k \in CommandFields \ {"assigneeName"} : a[k] = b[k]

\* C10: an answer that is a valid JSON object inside a markdown fence, or a JSON
\* object whose strings hold raw newline, tab or carriage return characters, is
\* decoded into a command with the fields of the object.
FencedOrRawIsDecoded ==
    (probe.op = "parsed" /\ (IsFencedJson \/ HasRawControls)) =>
        probe.out # NoCommand /\ SameFields(probe.out, probe.expect)


(***************************************************************************)
(* Answers of the oracle that are more than one JSON object: prose around  *)
(* the object, a second object after it, a fence that is not at the start  *)
(* of a line.                                                              *)
(***************************************************************************)
RepairShapes == {"plain", "before", "after", "two", "fencedBefore", "inlineFence", "twoFenced"}

RepairTitles == {"Fix a", "use {x}"}

SecondObject == Render(OracleCommand(Null, "Other", Null), FALSE, FALSE)

Shaped(object, shape) ==
    CASE shape = "plain" -> object
      [] shape = "before" -> "Here is the JSON: " \o object
      [] shape = "after" -> object \o "\nHope this helps"
      [] shape = "two" -> object \o "\n" \o SecondObject
      [] shape = "fencedBefore" -> "Here:\n" \o Wrap(object, "json")
      [] shape = "inlineFence" -> "Answer: " \o Wrap(object, "json")
      [] shape = "twoFenced" -> "Answer: " \o Wrap(object \o "\n" \o SecondObject, "json")

RepairInputs ==
    {[op |-> "input", expect |-> OracleCommand(a, t, d), lines |-> lines, raw |-> FALSE,
      fence |-> "none", shape |-> shape,
      in |-> Shaped(Render(OracleCommand(a, t, d), lines, FALSE), shape),
      users |-> Team, out |-> NoCommand] :
        a \in {Null, "flo"}, t \in RepairTitles, d \in ParseDescriptions,
        lines \in BOOLEAN, shape \in RepairShapes}

InitRepair == probe \in RepairInputs /\ InitProgram

NextRepair == ApplyParse

SpecRepair == InitRepair /\ [][NextRepair]_vars

\* C36: an answer that is not one JSON object once its fences are stripped (prose
\* before or after an object, two objects in sequence) is repaired to its first
\* complete {...} block, and the command decoded is the one of that first object.
RepairYieldsFirstObject ==
    (probe.op = "parsed" /\ probe.shape # "plain") =>
        probe.out # NoCommand /\ SameFields(probe.out, probe.expect)

\* the one shape the repair step does mend
InlineFenceIsRepaired ==
    (probe.op = "parsed" /\ probe.shape = "inlineFence") =>
        probe.out # NoCommand /\ SameFields(probe.out, probe.expect)

\* C38: cleanJsonResponse preserves a valid JSON object text, whatever its string
\* values (escaped quotes, a final escaped backslash) and the whitespace between
\* its tokens: the cleaned text decodes to the object the answer decodes to.
ValidJsonIsPreserved ==
    (probe.op = "parsed" /\ ~probe.raw /\ probe.fence = "none") =>
        JSONparse(cleanJsonResponse(probe.in)) = JSONparse(probe.in)


(***************************************************************************)
(* Specification of the resolver on names the directory does not hold,     *)
(* blank names among them, over lists with a user whose display name is    *)
(* empty                                                                   *)
(***************************************************************************)
BlankNames == {" ", "@", " @ ", "zed", "Andy"}

BlankUsers ==
    { LinearUser("u1", "Florent T", "flo", "florent@mobula.io"),
      LinearUser("u6", "Andy", "andy", "andy@ext.io"),
      LinearUser("u10", "Zoe", "", "zoe@ext.io"),
      LinearUser("u11", "Bot", "bot", "bot@ext.io") }

BlankLists == {l \in ListsOf(BlankUsers, MaxUsers) : Distinct(l)}

InitBlank ==
    /\ probe \in {[op |-> "name", person |-> 0, in |-> n, users |-> l, out |-> NoUser] :
                     n \in BlankNames, l \in BlankLists}
    /\ InitProgram

NextBlank == ApplyResolve

SpecBlank == InitBlank /\ [][NextBlank]_vars

\* the name as findUserByName normalises it
NormalizedOf(name) == replaceFirst(trim(toLowerCase(name)), "@", "")

\* the fields of a user that the direct search compares, those that are not empty
FilledFields(u) ==
    {toLowerCase(u.name), toLowerCase(u.displayName), emailPrefix(u.email)} \ {""}

\* C39: findUserByName never matches on an empty string: a name that normalises
\* to the empty string gives no user, and for a name the directory does not hold
\* the user returned has a non-empty field that is within the name or holds it.
EmptyNeverMatches ==
    (probe.op = "resolved" /\ findLinearUserByIdentifier(NormalizedOf(probe.in)) = NoMapping) =>
        /\ NormalizedOf(probe.in) = "" => probe.out = NoUser
        /\ probe.out # NoUser =>
               \E f \in FilledFields(probe.out) :
                   includes(f, NormalizedOf(probe.in)) \/ includes(NormalizedOf(probe.in), f)

====
